---- MODULE Spec2Model ----
(***************************************************************************)
(* Test utilities of the events-calendar-widget end-to-end suite: the      *)
(* retry policy (withRetry), the clipboard fallback chain                  *)
(* (copyToClipboard), the error classifier (classifyError), the artifact   *)
(* namers (transliterate, generateScreenshotName, detectCategory,          *)
(* generateScreenshotMetadata, getScreenshotDirectory, generateVideoName,  *)
(* generateScreenshotPath), retryClick and logTestStep.  Each component    *)
(* has its own specification; the variables of the other components stay   *)
(* at their idle values in it.                                             *)
(*                                                                         *)
(* Retry policy:                                                           *)
(* withRetry(operation, options) of utils/helpers, in its two versions:    *)
(* the extended one (exponentialBackoff, shouldRetry, onRetry) and the     *)
(* basic one of src/utils/helpers.ts (maxAttempts and delayMs only).       *)
(*                                                                         *)
(* One run of withRetry is modelled as a state machine.  The options are   *)
(* chosen in Init; the behaviour of the wrapped operation (resolve with a  *)
(* value, or throw some value) is chosen anew at every invocation.  The    *)
(* history variables (invocations, thrown, waits, onRetryCalls,            *)
(* shouldRetryCalls) record what the run did to its collaborators.         *)
(* In Spec the callbacks shouldRetry and onRetry return normally (their    *)
(* types are (error) => boolean and (attempt, error) => void); an onRetry  *)
(* that throws is an action of CompareSpec only.  shouldRetry is a         *)
(* predicate over the error's message.  A wait is the delay handed to      *)
(* setTimeout.                                                             *)
(***************************************************************************)
EXTENDS Integers, Sequences, FiniteSets

\* ------------------------------------------------------------------ bounds
\* largest maxAttempts option explored (0 is explored too: the option is an
\* unvalidated number)
MaxAttemptsBound == 3
\* largest delayMs option explored
MaxDelayMs == 2
\* number of distinct Error objects the operation can throw
MaxErrors == 3
\* number of distinct message texts
MaxMessages == 2
\* number of distinct values the operation can resolve with
MaxResults == 2

\* ------------------------------------------------------------------ values
Messages == 1..MaxMessages

\* the message text carried by the operation's Error object number r
MessageOfError(r) == ((r - 1) % MaxMessages) + 1

\* `undefined`: the initial value of lastError
Undefined == [kind |-> "undefined", ref |-> 0, message |-> 0]

\* Error instances created by the operation; ref is the object identity, so
\* two objects can carry the same message and still be different objects
ErrorInstances ==
    { [kind |-> "Error", ref |-> r, message |-> MessageOfError(r)] : r \in 1..MaxErrors }

\* thrown values that are not Error instances (strings); String(v) is the text
NonErrorValues ==
    { [kind |-> "string", ref |-> 0, message |-> m] : m \in Messages }

\* everything `operation` may throw
Throwables == ErrorInstances \cup NonErrorValues

\* values `operation` may resolve with
Results == 1..MaxResults

\* String(error) for a thrown non-Error value
StringOf(error) == error.message

\* `new Error(text)` executed by withRetry during attempt k: a fresh object,
\* different from every object of the operation and from the wrappers of the
\* other attempts
NewError(text, k) == [kind |-> "Error", ref |-> MaxErrors + k, message |-> text]

\* error instanceof Error ? error : new Error(String(error))
ToError(error, k) ==
    IF error.kind = "Error" THEN error ELSE NewError(StringOf(error), k)

\* lastError = ... : the assignment in the catch block
AssignLastErrorKeepsFirst(previous, caught) ==
    IF previous = Undefined THEN caught ELSE previous
AssignLastError(previous, caught) == caught

RECURSIVE Pow2(_)
\* Math.pow(2, n) for n >= 0
Pow2(n) == IF n <= 0 THEN 1 ELSE 2 * Pow2(n - 1)

\* exponentialBackoff ? delayMs * Math.pow(2, attempt - 1) : delayMs
DelayDoublesTooEarly(d, backoff, k) == IF backoff THEN d * Pow2(k) ELSE d
Delay(d, backoff, k) == IF backoff THEN d * Pow2(k - 1) ELSE d

\* the loop condition: attempt <= maxAttempts
LoopConditionOneExtra(k, n) == k <= n + 1
LoopConditionOneShort(k, n) == k < n
LoopCondition(k, n) == k <= n

\* if (!shouldRetry(lastError)) throw lastError
RethrowsNever(answer) == FALSE
Rethrows(answer) == ~answer

\* if (attempt < maxAttempts) await timeout
WaitsBeforeNextNever(k, n) == FALSE
WaitsBeforeNext(k, n) == k < n

\* ------------------------------------------------------------------- state
\* withRetry(operation, options)
VARIABLES
    implementation,       \* which withRetry runs: "extended" or "basic"
    maxAttempts,          \* options.maxAttempts
    delayMs,              \* options.delayMs
    exponentialBackoff,   \* options.exponentialBackoff
    shouldRetryGiven,     \* options.shouldRetry was passed
    retryable,            \* the messages for which shouldRetry answers true
    onRetryGiven,         \* options.onRetry was passed
    pc,                   \* where the run is
    attempt,              \* the loop variable
    lastError,            \* the local lastError
    invocations,          \* number of times operation() was called
    thrown,               \* thrown[k]: the value attempt k threw
    shouldRetryCalls,     \* the calls of shouldRetry, in order
    onRetryCalls,         \* the calls of onRetry, in order
    waits,                \* the timers awaited, in order
    returned,             \* the value operation() resolved with (0: none)
    resolvedWith,         \* the value withRetry resolved with (0: none)
    rejectedWith          \* the value withRetry rejected with

options == << implementation, maxAttempts, delayMs, exponentialBackoff, shouldRetryGiven,
              retryable, onRetryGiven >>

retryVars == << options, pc, attempt, lastError, invocations, thrown,
                shouldRetryCalls, onRetryCalls, waits, returned, resolvedWith,
                rejectedWith >>

\* copyToClipboard(page, context, text)
VARIABLES
    copyPc,               \* where the call is
    text,                 \* the text argument (0: no call)
    clipboard,            \* content of the system clipboard (0: something else)
    bodyPresent,          \* document.body is an element (not null)
    bodyChildren,         \* the textareas that are children of document.body
    textarea,             \* the element created by strategy 2
    strategy1,            \* how strategy 1 ended: "none", "ok", "raised"
    strategy2,            \* how strategy 2 ended: "none", "ok", "raised"
    execCommandResult,    \* what document.execCommand('copy') did
    copyResult            \* "pending", "true", "false", or "rejected"

copyVars == << copyPc, text, clipboard, bodyPresent, bodyChildren, textarea,
               strategy1, strategy2, execCommandResult, copyResult >>

\* no element
NoElement == [tag |-> "none", value |-> 0, createdBy |-> "nobody"]

\* no copyToClipboard call is being made
CopyIdle ==
    /\ copyPc = "idle"
    /\ text = 0
    /\ clipboard = 0
    /\ bodyPresent = TRUE
    /\ bodyChildren = << >>
    /\ textarea = NoElement
    /\ strategy1 = "none"
    /\ strategy2 = "none"
    /\ execCommandResult = "none"
    /\ copyResult = "pending"

\* classifyError(error), createTestError(error)
VARIABLES
    givenError,           \* the error argument
    testError             \* what createTestError did: the record, or a raise

classifyVars == << givenError, testError >>

\* no createTestError call is being made
ClassifyIdle ==
    /\ givenError = [hasMessage |-> TRUE, message |-> << >>]
    /\ testError = [state |-> "idle", type |-> "none", message |-> << >>]

\* transliterate(text)
VARIABLES
    inputText,            \* the text argument
    slug                  \* the returned slug: [state, value]

translitVars == << inputText, slug >>

\* no transliterate call is being made
TranslitIdle ==
    /\ inputText = << >>
    /\ slug = [state |-> "idle", value |-> << >>]

\* generateScreenshotName(testInfo, type, stepDescription), called by tests
\* that run at the same time
VARIABLES
    testInfos,            \* testInfos[t]: the metadata of test t and its arguments
    clock,                \* the wall clock, in milliseconds
    screenshotNames       \* screenshotNames[t]: the path test t obtained

screenshotVars == << testInfos, clock, screenshotNames >>

\* no test is running
ScreenshotIdle ==
    /\ testInfos = << >>
    /\ clock = 0
    /\ screenshotNames = << >>

\* the other artifact namers: generateScreenshotMetadata,
\* getScreenshotDirectory, generateVideoName, generateScreenshotPath
VARIABLES
    artifacts             \* artifacts[t]: what the other namers returned for test t

namerVars == << artifacts >>

\* no namer has been called
NamerIdle == artifacts = << >>

\* two withRetry runs over the same operation behaviour, one after the other
VARIABLES
    firstRun              \* what the first run did, once the second has started

compareVars == << firstRun >>

\* no run lies behind
NoRun == [variation |-> "none"]

\* no second run is being made
CompareIdle == firstRun = NoRun

\* retryClick(page, selector, options)
VARIABLES
    messageTexts          \* messageTexts[m]: the text of error message m

clickVars == << messageTexts >>

\* no retryClick call is being made
ClickIdle == messageTexts = [m \in Messages |-> << >>]

\* logTestStep(page, testInfo, stepName, action, options), called for the
\* steps of one test in turn
VARIABLES
    stepPc,               \* where the current logTestStep call is
    stepNames,            \* stepNames[c]: the stepName argument of call c
    stepScreenshots,      \* stepScreenshots[c]: options.screenshot of call c
    stepCall,             \* the number of the current call
    annotations,          \* testInfo.annotations
    attachments,          \* what testInfo.attach has attached
    actionOutcomes,       \* actionOutcomes[c]: how action() of call c settled
    stepError,            \* the error caught by the current call
    stepResults           \* stepResults[c]: how call c settled

stepVars == << stepPc, stepNames, stepScreenshots, stepCall, annotations, attachments,
               actionOutcomes, stepError, stepResults >>

\* no error
NoError == "none"

\* no logTestStep call is being made
StepIdle ==
    /\ stepPc = "idle"
    /\ stepNames = << >>
    /\ stepScreenshots = << >>
    /\ stepCall = 0
    /\ annotations = << >>
    /\ attachments = << >>
    /\ actionOutcomes = << >>
    /\ stepError = NoError
    /\ stepResults = << >>

\* the variables of the components other than withRetry
nonRetryVars == << copyVars, classifyVars, translitVars, screenshotVars, namerVars, compareVars, clickVars, stepVars >>

\* the variables of the components other than copyToClipboard
nonCopyVars == << retryVars, classifyVars, translitVars, screenshotVars, namerVars, compareVars, clickVars, stepVars >>

\* the variables of the components other than the error classifier
nonClassifyVars == << retryVars, copyVars, translitVars, screenshotVars, namerVars, compareVars, clickVars, stepVars >>

\* the variables of the components other than transliterate
nonTranslitVars == << retryVars, copyVars, classifyVars, screenshotVars, namerVars, compareVars, clickVars, stepVars >>

\* the variables of the components other than generateScreenshotName
nonScreenshotVars == << retryVars, copyVars, classifyVars, translitVars, namerVars, compareVars, clickVars, stepVars >>

vars == << retryVars, copyVars, classifyVars, translitVars, screenshotVars, namerVars, compareVars, clickVars, stepVars >>


\* shouldRetry(error): the default is () => true
shouldRetry(error) == error.message \in retryable

\* --------------------------------------------------------------------- run
\* withRetry has been called: options destructured, lastError undefined,
\* attempt = 1, the loop condition not yet evaluated
Init ==
    /\ maxAttempts \in 0..MaxAttemptsBound
    /\ delayMs \in 0..MaxDelayMs
    /\ exponentialBackoff \in BOOLEAN
    /\ shouldRetryGiven \in BOOLEAN
    /\ retryable \in SUBSET Messages
    /\ (~shouldRetryGiven => retryable = Messages)
    /\ onRetryGiven \in BOOLEAN
    /\ implementation \in {"extended", "basic"}
    /\ (implementation = "basic" =>
            ~exponentialBackoff /\ ~shouldRetryGiven /\ ~onRetryGiven)
    /\ pc = "loop"
    /\ attempt = 1
    /\ lastError = Undefined
    /\ invocations = 0
    /\ thrown = << >>
    /\ shouldRetryCalls = << >>
    /\ onRetryCalls = << >>
    /\ waits = << >>
    /\ returned = 0
    /\ resolvedWith = 0
    /\ rejectedWith = Undefined
    /\ CopyIdle
    /\ ClassifyIdle
    /\ TranslitIdle
    /\ ScreenshotIdle
    /\ NamerIdle
    /\ CompareIdle
    /\ ClickIdle
    /\ StepIdle

\* no withRetry call is being made
RetryIdle ==
    /\ implementation = "basic"
    /\ maxAttempts = 0
    /\ delayMs = 0
    /\ exponentialBackoff = FALSE
    /\ shouldRetryGiven = FALSE
    /\ retryable = Messages
    /\ onRetryGiven = FALSE
    /\ pc = "idle"
    /\ attempt = 1
    /\ lastError = Undefined
    /\ invocations = 0
    /\ thrown = << >>
    /\ shouldRetryCalls = << >>
    /\ onRetryCalls = << >>
    /\ waits = << >>
    /\ returned = 0
    /\ resolvedWith = 0
    /\ rejectedWith = Undefined

\* for (...; attempt <= maxAttempts; ...) { try { return await operation()
InvokeOperation ==
    /\ pc = "loop"
    /\ LoopCondition(attempt, maxAttempts)
    /\ pc' = "operation"
    /\ invocations' = invocations + 1
    /\ UNCHANGED nonRetryVars
    /\ UNCHANGED << options, attempt, lastError, thrown, shouldRetryCalls,
                    onRetryCalls, waits, returned, resolvedWith, rejectedWith >>

\* the loop ran out: throw lastError
ThrowLastError ==
    /\ pc = "loop"
    /\ ~LoopCondition(attempt, maxAttempts)
    /\ pc' = "rejected"
    /\ rejectedWith' = lastError
    /\ UNCHANGED nonRetryVars
    /\ UNCHANGED << options, attempt, lastError, invocations, thrown,
                    shouldRetryCalls, onRetryCalls, waits, returned, resolvedWith >>

\* operation() resolved: return its value
OperationResolvesWithoutReturn ==
    /\ pc = "operation"
    /\ \E v \in Results : returned' = v
    /\ pc' = "loop"
    /\ attempt' = attempt + 1
    /\ UNCHANGED nonRetryVars
    /\ UNCHANGED << options, lastError, invocations, thrown, shouldRetryCalls,
                    onRetryCalls, waits, resolvedWith, rejectedWith >>
OperationResolves ==
    /\ pc = "operation"
    /\ \E v \in Results : returned' = v
    /\ resolvedWith' = returned'
    /\ pc' = "resolved"
    /\ UNCHANGED nonRetryVars
    /\ UNCHANGED << options, attempt, lastError, invocations, thrown,
                    shouldRetryCalls, onRetryCalls, waits, rejectedWith >>

\* operation() threw, extended version: the catch block, up to its await (or
\* to its end)
OperationRejects ==
    /\ pc = "operation"
    /\ implementation = "extended"
    /\ \E error \in Throwables :
        LET caught == AssignLastError(lastError, ToError(error, attempt))
            answer == shouldRetry(caught)
        IN  /\ thrown' = Append(thrown, error)
            /\ lastError' = caught
            /\ shouldRetryCalls' =
                   Append(shouldRetryCalls, [attempt |-> attempt, error |-> caught,
                                             answer |-> answer])
            /\ IF Rethrows(answer)
               THEN /\ pc' = "rejected"
                    /\ rejectedWith' = caught
                    /\ UNCHANGED << attempt, onRetryCalls, waits >>
               ELSE /\ onRetryCalls' =
                           IF onRetryGiven
                           THEN Append(onRetryCalls,
                                       [attempt |-> attempt, error |-> caught])
                           ELSE onRetryCalls
                    /\ IF WaitsBeforeNext(attempt, maxAttempts)
                       THEN /\ waits' = Append(waits,
                                   [after |-> attempt,
                                    ms |-> Delay(delayMs, exponentialBackoff, attempt)])
                            /\ pc' = "wait"
                            /\ UNCHANGED attempt
                       ELSE /\ attempt' = attempt + 1
                            /\ pc' = "loop"
                            /\ UNCHANGED waits
                    /\ UNCHANGED rejectedWith
    /\ UNCHANGED nonRetryVars
    /\ UNCHANGED << options, invocations, returned, resolvedWith >>

\* operation() threw, basic version: the catch block, up to its await (or to
\* its end)
BasicOperationRejectsAlwaysWaits ==
    /\ pc = "operation"
    /\ implementation = "basic"
    /\ \E error \in Throwables :
        /\ thrown' = Append(thrown, error)
        /\ lastError' = AssignLastError(lastError, ToError(error, attempt))
    /\ waits' = Append(waits, [after |-> attempt, ms |-> delayMs])
    /\ pc' = "wait"
    /\ UNCHANGED attempt
    /\ UNCHANGED nonRetryVars
    /\ UNCHANGED << options, invocations, shouldRetryCalls, onRetryCalls,
                    returned, resolvedWith, rejectedWith >>
BasicOperationRejects ==
    /\ pc = "operation"
    /\ implementation = "basic"
    /\ \E error \in Throwables :
        /\ thrown' = Append(thrown, error)
        /\ lastError' = AssignLastError(lastError, ToError(error, attempt))
    /\ IF WaitsBeforeNext(attempt, maxAttempts)
       THEN /\ waits' = Append(waits, [after |-> attempt, ms |-> delayMs])
            /\ pc' = "wait"
            /\ UNCHANGED attempt
       ELSE /\ attempt' = attempt + 1
            /\ pc' = "loop"
            /\ UNCHANGED waits
    /\ UNCHANGED nonRetryVars
    /\ UNCHANGED << options, invocations, shouldRetryCalls, onRetryCalls,
                    returned, resolvedWith, rejectedWith >>

\* the timer of the wait fired: attempt++
TimerFires ==
    /\ pc = "wait"
    /\ attempt' = attempt + 1
    /\ pc' = "loop"
    /\ UNCHANGED nonRetryVars
    /\ UNCHANGED << options, lastError, invocations, thrown, shouldRetryCalls,
                    onRetryCalls, waits, returned, resolvedWith, rejectedWith >>

Next ==
    \/ InvokeOperation
    \/ ThrowLastError
    \/ OperationResolves
    \/ OperationRejects
    \/ BasicOperationRejects
    \/ TimerFires

Spec == Init /\ [][Next]_vars

\* every operation invocation and every timer wait completes
LiveSpec == Spec /\ WF_vars(Next)

Settled == pc \in {"resolved", "rejected"}

\* ----------------------------------------------------------------- helpers
\* the run rejected although shouldRetry never answered false: the loop ran out
Exhausted ==
    /\ pc = "rejected"
    /\ \A i \in 1..Len(shouldRetryCalls) : shouldRetryCalls[i].answer

\* every invocation of the operation so far has failed
AllFailed == Len(thrown) = invocations /\ returned = 0

\* ------------------------------------------------------------------ claims

C3_RejectsWithThrownValueItself ==
    (pc = "rejected" /\ Len(thrown) >= 1) => rejectedWith = thrown[Len(thrown)]

\* C4 (as claimed): if shouldRetry answers false on the first failure, there
\* is exactly one attempt and the rejection is identical to the thrown value.
C4_NoRetryOnFirstFailureKeepsIdentity ==
    (Len(shouldRetryCalls) >= 1 /\ ~shouldRetryCalls[1].answer)
        => /\ pc = "rejected"
           /\ invocations = 1
           /\ rejectedWith = thrown[1]

\* C5: whenever shouldRetry answers false for a failed attempt, at any attempt
\* number, the run has rejected at once with the error of that attempt: that
\* attempt is the last invocation, onRetry was not called for it and no wait
\* follows it.
C5_ShouldRetryFalseRejectsImmediately ==
    \A i \in 1..Len(shouldRetryCalls) :
        ~shouldRetryCalls[i].answer
            => LET call == shouldRetryCalls[i]
               IN  /\ pc = "rejected"
                   /\ i = Len(shouldRetryCalls)
                   /\ call.attempt = i
                   /\ invocations = i
                   /\ Len(thrown) = i
                   /\ rejectedWith = call.error
                   /\ rejectedWith.message = StringOf(thrown[i])
                   /\ (thrown[i].kind = "Error" => rejectedWith = thrown[i])
                   /\ \A j \in 1..Len(onRetryCalls) : onRetryCalls[j].attempt # i
                   /\ \A j \in 1..Len(waits) : waits[j].after # i

C5_Witness ==
    /\ pc = "rejected"
    /\ onRetryGiven
    /\ Len(shouldRetryCalls) >= 2
    /\ ~shouldRetryCalls[Len(shouldRetryCalls)].answer
    /\ Len(shouldRetryCalls) < maxAttempts
    /\ delayMs >= 1

\* C6 (as claimed): with onRetry provided, onRetry is called exactly once
\* before each wait and at no other time, so a finished run has as many
\* onRetry calls as waits; each call gets the number of the attempt that just
\* failed and that attempt's error.
C6_OnRetryOncePerWait ==
    (onRetryGiven /\ Settled)
        => /\ Len(onRetryCalls) = Len(waits)
           /\ \A j \in 1..Len(onRetryCalls) :
                /\ onRetryCalls[j].attempt = waits[j].after
                /\ onRetryCalls[j].error.message = StringOf(thrown[waits[j].after])

\* C7: the wait after failed attempt k is delayMs without exponentialBackoff
\* and delayMs * 2^(k-1) with it; the j-th wait follows attempt j, every
\* attempt but the first starts after such a wait, and no wait follows attempt
\* maxAttempts.
C7_WaitAfterAttemptK ==
    /\ \A j \in 1..Len(waits) :
        /\ waits[j].after = j
        /\ j < maxAttempts
        /\ waits[j].ms = IF exponentialBackoff THEN delayMs * 2^(j - 1) ELSE delayMs
    /\ (pc = "operation" => Len(waits) = attempt - 1)
    /\ (pc = "wait" => Len(waits) = attempt)

C7_Witness ==
    /\ Settled
    /\ exponentialBackoff
    /\ delayMs = MaxDelayMs
    /\ Len(waits) = MaxAttemptsBound - 1
    /\ waits[Len(waits)].ms = delayMs * 2^(MaxAttemptsBound - 2)

\* C8: once the operation succeeded on attempt k, withRetry has resolved with
\* that attempt's result, the operation has been invoked exactly k times
\* (k <= maxAttempts, the k-1 earlier attempts having failed and been waited
\* out); when k = 1 there was no wait and no shouldRetry or onRetry call.
C8_SuccessOnAttemptK ==
    (returned # 0)
        => /\ pc = "resolved"
           /\ resolvedWith = returned
           /\ invocations = attempt
           /\ invocations <= maxAttempts
           /\ Len(thrown) = invocations - 1
           /\ Len(waits) = invocations - 1
           /\ (invocations = 1 =>
                 (waits = << >> /\ shouldRetryCalls = << >> /\ onRetryCalls = << >>))

C8_Witness ==
    /\ pc = "resolved"
    /\ invocations = MaxAttemptsBound
    /\ resolvedWith = MaxResults

\* C9 (as claimed): every run invokes the operation at least once before it
\* settles, whatever maxAttempts is.
C9_AtLeastOneInvocation == Settled => invocations >= 1

MaxTexts == 2
\* largest number of textareas the page itself has in document.body
MaxPageTextareas == 2

\* a textarea of the page itself
PageTextarea == [tag |-> "textarea", value |-> 0, createdBy |-> "page"]

\* document.createElement('textarea'); textarea.value = textToCopy
CreateTextarea(t) == [tag |-> "textarea", value |-> t, createdBy |-> "copyToClipboard"]

\* document.body.removeChild(node)
RemoveChild(children, node) ==
    SelectSeq(children, LAMBDA c : c # node)

\* copyToClipboard has been called: strategy 1 is about to ask for permissions
CopyInit ==
    /\ copyPc = "grantPermissions"
    /\ text \in 1..MaxTexts
    /\ clipboard \in 0..MaxTexts
    /\ bodyPresent \in BOOLEAN
    /\ \E n \in 0..MaxPageTextareas :
          bodyChildren = IF bodyPresent THEN [i \in 1..n |-> PageTextarea] ELSE << >>
    /\ textarea = NoElement
    /\ strategy1 = "none"
    /\ strategy2 = "none"
    /\ execCommandResult = "none"
    /\ copyResult = "pending"
    /\ RetryIdle
    /\ ClassifyIdle
    /\ TranslitIdle
    /\ ScreenshotIdle
    /\ NamerIdle
    /\ CompareIdle
    /\ ClickIdle
    /\ StepIdle

\* await context.grantPermissions([...]) resolved
GrantPermissionsResolves ==
    /\ copyPc = "grantPermissions"
    /\ copyPc' = "writeText"
    /\ UNCHANGED << text, clipboard, bodyPresent, bodyChildren, textarea,
                    strategy1, strategy2, execCommandResult, copyResult >>
    /\ UNCHANGED nonCopyVars

\* await context.grantPermissions([...]) rejected: catch, log.warn, go on
GrantPermissionsRejectsAndGivesUp ==
    /\ copyPc = "grantPermissions"
    /\ strategy1' = "raised"
    /\ copyPc' = "done"
    /\ copyResult' = "false"
    /\ UNCHANGED << text, clipboard, bodyPresent, bodyChildren, textarea,
                    strategy2, execCommandResult >>
    /\ UNCHANGED nonCopyVars
GrantPermissionsRejects ==
    /\ copyPc = "grantPermissions"
    /\ strategy1' = "raised"
    /\ copyPc' = "strategy2"
    /\ UNCHANGED << text, clipboard, bodyPresent, bodyChildren, textarea,
                    strategy2, execCommandResult, copyResult >>
    /\ UNCHANGED nonCopyVars

\* await page.evaluate(navigator.clipboard.writeText) resolved: return true
WriteTextResolvesWithoutReturn ==
    /\ copyPc = "writeText"
    /\ clipboard' = text
    /\ strategy1' = "ok"
    /\ copyPc' = "strategy2"
    /\ UNCHANGED << text, bodyPresent, bodyChildren, textarea, strategy2,
                    execCommandResult, copyResult >>
    /\ UNCHANGED nonCopyVars
WriteTextResolves ==
    /\ copyPc = "writeText"
    /\ clipboard' = text
    /\ strategy1' = "ok"
    /\ copyPc' = "done"
    /\ copyResult' = "true"
    /\ UNCHANGED << text, bodyPresent, bodyChildren, textarea, strategy2,
                    execCommandResult >>
    /\ UNCHANGED nonCopyVars

\* await page.evaluate(navigator.clipboard.writeText) rejected: catch, go on
WriteTextRejects ==
    /\ copyPc = "writeText"
    /\ strategy1' = "raised"
    /\ copyPc' = "strategy2"
    /\ UNCHANGED << text, clipboard, bodyPresent, bodyChildren, textarea,
                    strategy2, execCommandResult, copyResult >>
    /\ UNCHANGED nonCopyVars

\* strategy 2: page.evaluate rejected before its script ran (page closed):
\* catch, log.error, return false
Strategy2EvaluateRejects ==
    /\ copyPc = "strategy2"
    /\ strategy2' = "raised"
    /\ copyPc' = "done"
    /\ copyResult' = "false"
    /\ UNCHANGED << text, clipboard, bodyPresent, bodyChildren, textarea,
                    strategy1, execCommandResult >>
    /\ UNCHANGED nonCopyVars

\* strategy 2, in the page: createElement, value, style, appendChild, select.
\* document.body.appendChild raises when document.body is null; the evaluate
\* then rejects: catch, log.error, return false
Strategy2AppendTextarea ==
    /\ copyPc = "strategy2"
    /\ textarea' = CreateTextarea(text)
    /\ IF bodyPresent
       THEN /\ bodyChildren' = Append(bodyChildren, textarea')
            /\ copyPc' = "execCommand"
            /\ UNCHANGED << strategy2, copyResult >>
       ELSE /\ strategy2' = "raised"
            /\ copyPc' = "done"
            /\ copyResult' = "false"
            /\ UNCHANGED bodyChildren
    /\ UNCHANGED << text, clipboard, bodyPresent, strategy1, execCommandResult >>
    /\ UNCHANGED nonCopyVars

\* strategy 2, in the page: document.execCommand('copy') returned true (the
\* selection was copied) or false (it was not); removeChild; the evaluate
\* resolves: return true
ExecCommandReturns ==
    /\ copyPc = "execCommand"
    /\ \E copied \in BOOLEAN :
        /\ execCommandResult' = IF copied THEN "true" ELSE "false"
        /\ clipboard' = IF copied THEN textarea.value ELSE clipboard
    /\ bodyChildren' = RemoveChild(bodyChildren, textarea)
    /\ strategy2' = "ok"
    /\ copyPc' = "done"
    /\ copyResult' = "true"
    /\ UNCHANGED << text, bodyPresent, textarea, strategy1 >>
    /\ UNCHANGED nonCopyVars

\* strategy 2, in the page: document.execCommand('copy') raised; the script
\* stops there and the evaluate rejects: catch, log.error, return false
ExecCommandRaisesUncaught ==
    /\ copyPc = "execCommand"
    /\ execCommandResult' = "raised"
    /\ strategy2' = "raised"
    /\ copyPc' = "done"
    /\ copyResult' = "rejected"
    /\ UNCHANGED << text, clipboard, bodyPresent, bodyChildren, textarea, strategy1 >>
    /\ UNCHANGED nonCopyVars
ExecCommandRaises ==
    /\ copyPc = "execCommand"
    /\ execCommandResult' = "raised"
    /\ strategy2' = "raised"
    /\ copyPc' = "done"
    /\ copyResult' = "false"
    /\ UNCHANGED << text, clipboard, bodyPresent, bodyChildren, textarea, strategy1 >>
    /\ UNCHANGED nonCopyVars

CopyNext ==
    \/ GrantPermissionsResolves
    \/ GrantPermissionsRejects
    \/ WriteTextResolves
    \/ WriteTextRejects
    \/ Strategy2EvaluateRejects
    \/ Strategy2AppendTextarea
    \/ ExecCommandReturns
    \/ ExecCommandRaises

CopySpec == CopyInit /\ [][CopyNext]_vars

\* the textareas strategy 2 has put into document.body and not removed
LeftBehind == SelectSeq(bodyChildren, LAMBDA c : c.createdBy = "copyToClipboard")

\* C11: when strategy 1 succeeded, copyToClipboard has returned true and
\* strategy 2 never started: no textarea was created or appended and no
\* execCommand was issued.
C11_Strategy1SuccessSkipsStrategy2 ==
    (strategy1 = "ok")
        => /\ copyPc = "done"
           /\ copyResult = "true"
           /\ strategy2 = "none"
           /\ textarea = NoElement
           /\ LeftBehind = << >>
           /\ execCommandResult = "none"

C11_Witness ==
    /\ strategy1 = "ok"
    /\ copyResult = "true"
    /\ clipboard = text
    /\ Len(bodyChildren) = MaxPageTextareas

C13_NeverRejects ==
    /\ copyResult # "rejected"
    /\ (copyPc = "done" <=> copyResult \in {"true", "false"})
    /\ (copyPc # "done" => ENABLED CopyNext)

C13_Witness ==
    /\ copyPc = "done"
    /\ execCommandResult = "raised"
    /\ copyResult = "false"

\* C14 (as claimed): after copyToClipboard completed, with any outcome, no
\* textarea added by strategy 2 is left in the document.
C14_NoTextareaLeftBehind ==
    (copyPc = "done") => LeftBehind = << >>

\* C15 (as claimed): copyToClipboard returns true only if one of its
\* strategies reported a successful copy: the clipboard write resolved, or
\* execCommand returned true.
C15_TrueOnlyOnReportedSuccess ==
    (copyResult = "true") => (strategy1 = "ok" \/ execCommandResult = "true")

\* ================================================== strings as sequences
\* A string is the sequence of its characters; a character outside ASCII is
\* written by its code point: "u0449" is CYRILLIC SMALL LETTER SHCHA (U+0449).
\* The Cyrillic alphabets are in the order a, be, ve, ghe, de, ie, io, zhe,
\* ze, i, short i, ka, el, em, en, o, pe, er, es, te, u, ef, ha, tse, che,
\* sha, shcha, hard sign, yeru, soft sign, e, yu, ya.
UpperLatin == << "A", "B", "C", "D", "E", "F", "G", "H", "I", "J", "K", "L", "M",
                 "N", "O", "P", "Q", "R", "S", "T", "U", "V", "W", "X", "Y", "Z" >>
LowerLatin == << "a", "b", "c", "d", "e", "f", "g", "h", "i", "j", "k", "l", "m",
                 "n", "o", "p", "q", "r", "s", "t", "u", "v", "w", "x", "y", "z" >>
UpperCyrillic == << "u0410", "u0411", "u0412", "u0413", "u0414", "u0415", "u0401", "u0416", "u0417", "u0418", "u0419", "u041a", "u041b",
                    "u041c", "u041d", "u041e", "u041f", "u0420", "u0421", "u0422", "u0423", "u0424", "u0425", "u0426", "u0427", "u0428",
                    "u0429", "u042a", "u042b", "u042c", "u042d", "u042e", "u042f" >>
LowerCyrillic == << "u0430", "u0431", "u0432", "u0433", "u0434", "u0435", "u0451", "u0436", "u0437", "u0438", "u0439", "u043a", "u043b",
                    "u043c", "u043d", "u043e", "u043f", "u0440", "u0441", "u0442", "u0443", "u0444", "u0445", "u0446", "u0447", "u0448",
                    "u0449", "u044a", "u044b", "u044c", "u044d", "u044e", "u044f" >>
Digits == << "0", "1", "2", "3", "4", "5", "6", "7", "8", "9" >>

\* the elements of a sequence
Range(seq) == { seq[i] : i \in 1..Len(seq) }

\* the position of c in seq (c occurs in seq)
IndexOf(c, seq) == CHOOSE i \in 1..Len(seq) : seq[i] = c

\* String.prototype.toLowerCase, character by character
LowerChar(c) ==
    IF c \in Range(UpperLatin) THEN LowerLatin[IndexOf(c, UpperLatin)]
    ELSE IF c \in Range(UpperCyrillic) THEN LowerCyrillic[IndexOf(c, UpperCyrillic)]
    ELSE c
ToLowerCase(str) == [i \in 1..Len(str) |-> LowerChar(str[i])]

\* String.prototype.includes
Includes(str, k) ==
    \E i \in 1..(Len(str) - Len(k) + 1) : SubSeq(str, i, i + Len(k) - 1) = k

RECURSIVE Concat(_)
\* the concatenation of a sequence of strings
Concat(parts) == IF parts = << >> THEN << >> ELSE Head(parts) \o Concat(Tail(parts))

\* ========================================================= classifyError
\* largest number of fragments an explored message is made of
MaxFragments == 2

\* the keywords of classifyError
KwTimeout == << "t", "i", "m", "e", "o", "u", "t" >>
KwExceeded == << "e", "x", "c", "e", "e", "d", "e", "d" >>
KwNotFound == << "n", "o", "t", " ", "f", "o", "u", "n", "d" >>
KwNoElement == << "n", "o", " ", "e", "l", "e", "m", "e", "n", "t" >>
KwNetwork == << "n", "e", "t", "w", "o", "r", "k" >>
KwNet == << "n", "e", "t", ":", ":" >>
KwExpect == << "e", "x", "p", "e", "c", "t" >>
KwAssertion == << "a", "s", "s", "e", "r", "t", "i", "o", "n" >>
KwClipboard == << "c", "l", "i", "p", "b", "o", "a", "r", "d" >>

\* pieces of error messages: keywords in several cases, parts of keywords
\* that make a keyword only when put together, and text with no keyword
Fragments ==
    { << "T", "i", "m", "e", "o", "u", "t" >>,
      << "E", "X", "C", "E", "E", "D", "E", "D" >>,
      << "t", "i", "m", "e" >>,
      << "o", "u", "t" >>,
      << "n", "o", "t", " ", "f", "o", "u", "n", "d" >>,
      << "N", "o", " ", "E", "l", "e", "m", "e", "n", "t" >>,
      << "n", "e", "t", "w", "o", "r", "k" >>,
      << "n", "e", "t", ":", ":" >>,
      << "u", "n" >>,
      << "e", "x", "p", "e", "c", "t" >>,
      << "A", "s", "s", "e", "r", "t", "i", "o", "n" >>,
      << "C", "l", "i", "p", "b", "o", "a", "r", "d" >>,
      << "r", "a", "n", "d", "o", "m", " ", "f", "a", "i", "l", "u", "r", "e" >> }

\* the messages explored: up to MaxFragments fragments, separated by a space
\* or not
MessageTexts ==
    { Concat(parts) : parts \in UNION { [1..n -> Fragments] : n \in 0..MaxFragments } }

\* the error values explored: Errors with a message (possibly empty), and a
\* value without a message property (a thrown non-Error value passed on as
\* an Error)
ErrorValues ==
    { [hasMessage |-> TRUE, message |-> m] : m \in MessageTexts }
        \cup { [hasMessage |-> FALSE, message |-> << >>] }

\* classifyError, from `const message` on: the chain of includes tests
classifyMessageNotFoundFirst(message) ==
    IF Includes(message, KwNotFound) \/ Includes(message, KwNoElement)
        THEN "ELEMENT_NOT_FOUND"
    ELSE IF Includes(message, KwTimeout) \/ Includes(message, KwExceeded)
        THEN "TIMEOUT"
    ELSE IF Includes(message, KwNetwork) \/ Includes(message, KwNet)
        THEN "NETWORK_ERROR"
    ELSE IF Includes(message, KwExpect) \/ Includes(message, KwAssertion)
        THEN "ASSERTION_FAILED"
    ELSE IF Includes(message, KwClipboard)
        THEN "CLIPBOARD_ERROR"
    ELSE "UNKNOWN"
classifyMessage(message) ==
    IF Includes(message, KwTimeout) \/ Includes(message, KwExceeded)
        THEN "TIMEOUT"
    ELSE IF Includes(message, KwNotFound) \/ Includes(message, KwNoElement)
        THEN "ELEMENT_NOT_FOUND"
    ELSE IF Includes(message, KwNetwork) \/ Includes(message, KwNet)
        THEN "NETWORK_ERROR"
    ELSE IF Includes(message, KwExpect) \/ Includes(message, KwAssertion)
        THEN "ASSERTION_FAILED"
    ELSE IF Includes(message, KwClipboard)
        THEN "CLIPBOARD_ERROR"
    ELSE "UNKNOWN"

\* classifyError(error): error.message.toLowerCase() raises a TypeError when
\* error.message is undefined
classifyError(error) ==
    IF error.hasMessage
    THEN classifyMessage(ToLowerCase(error.message))
    ELSE "TypeError"

\* createTestError has been called with some error
ClassifyInit ==
    /\ givenError \in ErrorValues
    /\ testError = [state |-> "called", type |-> "none", message |-> << >>]
    /\ RetryIdle
    /\ CopyIdle
    /\ TranslitIdle
    /\ ScreenshotIdle
    /\ NamerIdle
    /\ CompareIdle
    /\ ClickIdle
    /\ StepIdle

\* createTestError(error): { type: classifyError(error), message: error.message }
CreateTestError ==
    /\ testError.state = "called"
    /\ LET type == classifyError(givenError)
       IN  testError' =
             IF type = "TypeError"
             THEN [state |-> "raised", type |-> "TypeError", message |-> << >>]
             ELSE [state |-> "created", type |-> type, message |-> givenError.message]
    /\ UNCHANGED givenError
    /\ UNCHANGED nonClassifyVars

ClassifyNext == CreateTestError

ClassifySpec == ClassifyInit /\ [][ClassifyNext]_vars

\* the rules as the classifier is described: kind and keywords, in order
ClassifierRules ==
    << [kind |-> "TIMEOUT", keywords |-> {KwTimeout, KwExceeded}],
       [kind |-> "ELEMENT_NOT_FOUND", keywords |-> {KwNotFound, KwNoElement}],
       [kind |-> "NETWORK_ERROR", keywords |-> {KwNetwork, KwNet}],
       [kind |-> "ASSERTION_FAILED", keywords |-> {KwExpect, KwAssertion}],
       [kind |-> "CLIPBOARD_ERROR", keywords |-> {KwClipboard}] >>

ErrorKinds ==
    { "TIMEOUT", "ELEMENT_NOT_FOUND", "NETWORK_ERROR", "ASSERTION_FAILED",
      "CLIPBOARD_ERROR", "UNKNOWN" }

\* keyword k occurs in str as a substring, letter case ignored
OccursIgnoringCase(str, k) ==
    \E i \in 1..(Len(str) - Len(k) + 1) :
        \A j \in 1..Len(k) : LowerChar(str[i + j - 1]) = k[j]

\* rule r matches the message
RuleMatches(r, str) == \E k \in ClassifierRules[r].keywords : OccursIgnoringCase(str, k)

\* C16: the type is the kind of the first rule, in the order TIMEOUT,
\* ELEMENT_NOT_FOUND, NETWORK_ERROR, ASSERTION_FAILED, CLIPBOARD_ERROR, one of
\* whose keywords occurs in the message ignoring case, and UNKNOWN when no
\* rule matches; a message with a timeout term is TIMEOUT whatever else it
\* contains.
C16_FirstMatchingRuleWins ==
    (testError.state = "created")
        => LET matching == { r \in 1..Len(ClassifierRules) :
                                RuleMatches(r, givenError.message) }
           IN  /\ (matching = {} => testError.type = "UNKNOWN")
               /\ (matching # {} =>
                     \E r \in matching :
                        /\ \A o \in matching : r <= o
                        /\ testError.type = ClassifierRules[r].kind)
               /\ (1 \in matching => testError.type = "TIMEOUT")

C16_Witness ==
    /\ testError.state = "created"
    /\ testError.type = "TIMEOUT"
    /\ givenError.message = << "T", "i", "m", "e", "o", "u", "t", "n", "o", "t", " ", "f", "o", "u", "n", "d" >>

\* C17 (as claimed): for every error value, a message empty or absent
\* included, createTestError produces a record whose type is one of the six
\* kinds and whose message is the error's message; nothing is raised.
C17_ClassifierIsTotal ==
    (testError.state # "called" /\ testError.state # "idle")
        => /\ testError.state = "created"
           /\ testError.type \in ErrorKinds
           /\ testError.message = givenError.message

\* =========================================================== transliterate
\* largest length of an explored text
MaxTextLen == 3

\* the keys of charMap: the 33 lower-case Cyrillic letters, ' ' and '_'
CharMapKeys == LowerCyrillic \o << " ", "_" >>

\* the values of charMap, in the order of its keys ('' for the hard and the
\* soft sign)
CharMapValues ==
    << << "a" >>, << "b" >>, << "v" >>, << "g" >>, << "d" >>,
       << "e" >>, << "y", "o" >>, << "z", "h" >>, << "z" >>, << "i" >>,
       << "y" >>, << "k" >>, << "l" >>, << "m" >>, << "n" >>,
       << "o" >>, << "p" >>, << "r" >>, << "s" >>, << "t" >>,
       << "u" >>, << "f" >>, << "h" >>, << "t", "s" >>, << "c", "h" >>,
       << "s", "h" >>, << "s", "c", "h" >>, <<  >>, << "y" >>, <<  >>,
       << "e" >>, << "y", "u" >>, << "y", "a" >>, << "-" >>, << "-" >> >>

\* charMap[char] || char: an empty mapping is falsy, the character stays
MapChar(c) ==
    IF c \in Range(CharMapKeys) /\ CharMapValues[IndexOf(c, CharMapKeys)] # << >>
    THEN CharMapValues[IndexOf(c, CharMapKeys)]
    ELSE << c >>

RECURSIVE Join(_)
\* .join(''): the strings of a list, one after the other
Join(parts) ==
    IF parts = << >> THEN << >>
    ELSE IF Len(parts) = 1 THEN parts[1]
    ELSE Join(SubSeq(parts, 1, Len(parts) \div 2))
            \o Join(SubSeq(parts, (Len(parts) \div 2) + 1, Len(parts)))

\* .split('').map(char => charMap[char] || char).join('')
MapChars(str) == Join([i \in 1..Len(str) |-> MapChar(str[i])])

\* the characters of [a-z0-9-]
SlugChars == Range(LowerLatin) \cup Range(Digits) \cup {"-"}

\* .replace(/[^a-z0-9-]/g, '')
RemoveOtherCharsForgotten(str) == str
RemoveOtherChars(str) == SelectSeq(str, LAMBDA c : c \in SlugChars)

\* .replace(/-+/g, '-'): a hyphen that follows a hyphen goes
CollapseHyphens(str) ==
    LET marked == [i \in 1..Len(str) |->
                      IF i > 1 /\ str[i] = "-" /\ str[i - 1] = "-" THEN "" ELSE str[i]]
    IN  SelectSeq(marked, LAMBDA c : c # "")

\* .replace(/^-|-$/g, ''): one hyphen at the start and one at the end
TrimHyphens(str) ==
    LET noLead == IF str # << >> /\ Head(str) = "-" THEN Tail(str) ELSE str
    IN  IF noLead # << >> /\ noLead[Len(noLead)] = "-"
        THEN SubSeq(noLead, 1, Len(noLead) - 1)
        ELSE noLead

\* transliterate(text)
transliterate(str) ==
    TrimHyphens(CollapseHyphens(RemoveOtherChars(MapChars(ToLowerCase(str)))))

\* the characters explored: Cyrillic letters in both cases with mappings of
\* one, two, three and no Latin letters (a, zhe, SHCHA, shcha, hard sign), a
\* Cyrillic letter outside charMap (Ukrainian i), Latin letters in both
\* cases, a digit, the separators and punctuation
TextAlphabet ==
    { "u0430", "u0436", "u0429", "u0449", "u044a", "u0456",
      "a", "Z", "7", " ", "_", "-", "!" }

\* the texts explored
Texts == UNION { [1..n -> TextAlphabet] : n \in 0..MaxTextLen }

\* transliterate has been called with some text
TranslitInit ==
    /\ inputText \in Texts
    /\ slug = [state |-> "called", value |-> << >>]
    /\ RetryIdle
    /\ CopyIdle
    /\ ClassifyIdle
    /\ ScreenshotIdle
    /\ NamerIdle
    /\ CompareIdle
    /\ ClickIdle
    /\ StepIdle

\* return text.toLowerCase() ... .replace(/^-|-$/g, '')
Transliterate ==
    /\ slug.state = "called"
    /\ slug' = [state |-> "returned", value |-> transliterate(inputText)]
    /\ UNCHANGED inputText
    /\ UNCHANGED nonTranslitVars

TranslitNext == Transliterate

TranslitSpec == TranslitInit /\ [][TranslitNext]_vars

\* the Latin letters that stand for a Cyrillic letter, upper or lower case
LatinFor(c) == CharMapValues[IndexOf(LowerChar(c), LowerCyrillic)]

\* the Cyrillic letters of the Russian alphabet, both cases
CyrillicLetters == Range(LowerCyrillic) \cup Range(UpperCyrillic)

DescriptionSliceEnd == 50

\* largest length of a short run of one character in an explored title
MaxShortRun == 1

\* largest number of characters by which a long run exceeds the slice
MaxOver == 1

\* largest number of clock ticks in a behaviour
MaxTicks == 2

\* the tests that run at the same time
Tests == { "t1", "t2" }

\* TEST_CATEGORIES.*.id and the fallback of detectCategory
CategorySmoke == << "s", "m", "o", "k", "e" >>
CategoryFunctional == << "f", "u", "n", "c", "t", "i", "o", "n", "a", "l" >>
CategoryVisual == << "v", "i", "s", "u", "a", "l" >>
CategoryAccessibility == << "a", "c", "c", "e", "s", "s", "i", "b", "i", "l", "i", "t", "y" >>
CategoryOther == << "o", "t", "h", "e", "r" >>

\* ScreenshotType.FAILURE and ScreenshotType.STEP (Cyrillic words, written by
\* code point as the letters of the alphabets are)
TypeFailure == << "u043e", "u0448", "u0438", "u0431", "u043a", "u0430" >>
TypeStep == << "u0448", "u0430", "u0433" >>

\* str.slice(0, n)
Slice(str, n) == SubSeq(str, 1, IF Len(str) < n THEN Len(str) ELSE n)

\* the length of the longest prefix of str made of characters of S
LeadingRun(str, S) ==
    IF \A i \in 1..Len(str) : str[i] \in S
    THEN Len(str)
    ELSE (CHOOSE i \in 1..Len(str) :
              str[i] \notin S /\ \A j \in 1..(i - 1) : str[j] \in S) - 1

\* the length of the match of /^([A-Z]+-\d+)/, 0 when there is none
TestIdLength(title) ==
    LET letters == LeadingRun(title, Range(UpperLatin))
        afterHyphen == SubSeq(title, letters + 2, Len(title))
        digits == LeadingRun(afterHyphen, Range(Digits))
    IN  IF letters >= 1 /\ Len(title) > letters /\ title[letters + 1] = "-" /\ digits >= 1
        THEN letters + 1 + digits
        ELSE 0

\* extractTestId(testName): match ? match[1] : ''
extractTestId(testName) == SubSeq(testName, 1, TestIdLength(testName))

\* the characters \s matches among those explored
WhiteSpace == { " " }

\* testInfo.title.match(/^[A-Z]+-\d+:\s*(.+)$/): whether it matches and its
\* group 1. \s* is greedy but gives one character back when nothing else is
\* left for (.+)
descriptionMatch(title) ==
    LET id == TestIdLength(title)
        rest == SubSeq(title, id + 2, Len(title))
        spaces == LeadingRun(rest, WhiteSpace)
    IN  IF id >= 1 /\ Len(title) > id + 1 /\ title[id + 1] = ":"
        THEN [matched |-> TRUE,
              group |-> IF spaces = Len(rest)
                        THEN SubSeq(rest, Len(rest), Len(rest))
                        ELSE SubSeq(rest, spaces + 1, Len(rest))]
        ELSE [matched |-> FALSE, group |-> << >>]

\* const description = descriptionMatch ? transliterate(descriptionMatch[1]
\* .slice(0, 50)) : transliterate(testInfo.title.slice(0, 50))
Description(title) ==
    IF descriptionMatch(title).matched
    THEN transliterate(Slice(descriptionMatch(title).group, DescriptionSliceEnd))
    ELSE transliterate(Slice(title, DescriptionSliceEnd))

\* detectCategory(testInfo)
detectCategoryTitleFirst(testInfo) ==
    LET filePath == testInfo.file
        title == ToLowerCase(testInfo.title)
    IN  IF Includes(title, << "@", "s", "m", "o", "k", "e" >>) THEN CategorySmoke
        ELSE IF Includes(title, << "@", "f", "u", "n", "c", "t", "i", "o", "n", "a", "l" >>) THEN CategoryFunctional
        ELSE IF Includes(title, << "@", "v", "i", "s", "u", "a", "l" >>) THEN CategoryVisual
        ELSE IF \/ Includes(title, << "@", "a", "c", "c", "e", "s", "s", "i", "b", "i", "l", "i", "t", "y" >>)
                \/ Includes(title, << "@", "a", "1", "1", "y" >>) THEN CategoryAccessibility
        ELSE IF Includes(filePath, << "/", "s", "m", "o", "k", "e", "/" >>) THEN CategorySmoke
        ELSE IF Includes(filePath, << "/", "f", "u", "n", "c", "t", "i", "o", "n", "a", "l", "/" >>) THEN CategoryFunctional
        ELSE IF Includes(filePath, << "/", "v", "i", "s", "u", "a", "l", "/" >>) THEN CategoryVisual
        ELSE IF Includes(filePath, << "/", "a", "c", "c", "e", "s", "s", "i", "b", "i", "l", "i", "t", "y", "/" >>) THEN CategoryAccessibility
        ELSE CategoryOther
detectCategory(testInfo) ==
    LET filePath == testInfo.file
        title == ToLowerCase(testInfo.title)
    IN  IF Includes(filePath, << "/", "s", "m", "o", "k", "e", "/" >>) THEN CategorySmoke
        ELSE IF Includes(filePath, << "/", "f", "u", "n", "c", "t", "i", "o", "n", "a", "l", "/" >>) THEN CategoryFunctional
        ELSE IF Includes(filePath, << "/", "v", "i", "s", "u", "a", "l", "/" >>) THEN CategoryVisual
        ELSE IF Includes(filePath, << "/", "a", "c", "c", "e", "s", "s", "i", "b", "i", "l", "i", "t", "y", "/" >>) THEN CategoryAccessibility
        ELSE IF Includes(title, << "@", "s", "m", "o", "k", "e" >>) THEN CategorySmoke
        ELSE IF Includes(title, << "@", "f", "u", "n", "c", "t", "i", "o", "n", "a", "l" >>) THEN CategoryFunctional
        ELSE IF Includes(title, << "@", "v", "i", "s", "u", "a", "l" >>) THEN CategoryVisual
        ELSE IF \/ Includes(title, << "@", "a", "c", "c", "e", "s", "s", "i", "b", "i", "l", "i", "t", "y" >>)
                \/ Includes(title, << "@", "a", "1", "1", "y" >>) THEN CategoryAccessibility
        ELSE CategoryOther

\* the decimal digits of a natural number, as template literals print it
RECURSIVE NumberToString(_)
NumberToString(n) ==
    IF n < 10 THEN << Digits[n + 1] >>
    ELSE NumberToString(n \div 10) \o << Digits[(n % 10) + 1] >>

\* getViewportInfo(testInfo)
getViewportInfo(testInfo) ==
    LET project == testInfo.project
    IN  IF project.viewport.defined
        THEN NumberToString(project.viewport.width) \o << "x" >>
                \o NumberToString(project.viewport.height)
        ELSE IF Includes(project.name, << "m", "o", "b", "i", "l", "e" >>) THEN << "m", "o", "b", "i", "l", "e" >>
        ELSE << "d", "e", "s", "k", "t", "o", "p" >>

\* a number printed with at least `width` digits, as toISOString pads it
RECURSIVE Pad(_, _)
Pad(n, width) ==
    IF width <= 1 THEN NumberToString(n)
    ELSE IF Len(NumberToString(n)) >= width THEN NumberToString(n)
    ELSE << "0" >> \o Pad(n, width - 1)

\* the calendar day of the run, as toISOString prints it
Today == << "2", "0", "2", "4", "-", "0", "1", "-", "1", "5" >>

\* now.toISOString() for the clock reading `now`, in milliseconds since the
\* start of the day
ToISOString(now) ==
    Today \o << "T" >> \o Pad(now \div 3600000, 2)
          \o << ":" >> \o Pad((now \div 60000) % 60, 2)
          \o << ":" >> \o Pad((now \div 1000) % 60, 2)
          \o << "." >> \o Pad(now % 1000, 3) \o << "Z" >>

\* .replace(/[:.]/g, '-')
ReplaceColonsAndDots(str) ==
    [i \in 1..Len(str) |-> IF str[i] \in { ":", "." } THEN "-" ELSE str[i]]

\* .replace('T', '_'): the first T only
ReplaceFirstT(str) ==
    IF "T" \in Range(str)
    THEN LET first == CHOOSE i \in 1..Len(str) :
                          str[i] = "T" /\ \A j \in 1..(i - 1) : str[j] # "T"
         IN  [i \in 1..Len(str) |-> IF i = first THEN "_" ELSE str[i]]
    ELSE str

\* formatTimestamp(), with the clock reading of new Date()
formatTimestampWithMilliseconds(now) ==
    Slice(ReplaceFirstT(ReplaceColonsAndDots(ToISOString(now))), 23)
formatTimestamp(now) ==
    Slice(ReplaceFirstT(ReplaceColonsAndDots(ToISOString(now))), 19)

\* path.join of segments that hold no '/', '.' or '..': the non-empty
\* segments joined by '/'
RECURSIVE PathJoin(_)
PathJoin(parts) ==
    IF parts = << >> THEN << >>
    ELSE IF Head(parts) = << >> THEN PathJoin(Tail(parts))
    ELSE IF PathJoin(Tail(parts)) = << >> THEN Head(parts)
    ELSE Head(parts) \o << "/" >> \o PathJoin(Tail(parts))

\* `${testId}_${description}${stepPart}_${viewport}_${type}_${timestamp}.png`
FileNameTypeBeforeViewport(testId, description, stepPart, viewport, type, timestamp) ==
    testId \o << "_" >> \o description \o stepPart \o << "_" >> \o type
           \o << "_" >> \o viewport \o << "_" >> \o timestamp \o << ".", "p", "n", "g" >>
FileName(testId, description, stepPart, viewport, type, timestamp) ==
    testId \o << "_" >> \o description \o stepPart \o << "_" >> \o viewport
           \o << "_" >> \o type \o << "_" >> \o timestamp \o << ".", "p", "n", "g" >>

\* the constants of generateScreenshotName and its result, for a call with
\* these arguments when the clock reads `now`
ScreenshotName(testInfo, type, stepDescription, now) ==
    LET category == detectCategory(testInfo)
        browser == IF testInfo.project.name # << >>
                   THEN testInfo.project.name ELSE << "u", "n", "k", "n", "o", "w", "n" >>
        testId == IF extractTestId(testInfo.title) # << >>
                  THEN extractTestId(testInfo.title) ELSE << "T", "E", "S", "T" >>
        viewport == getViewportInfo(testInfo)
        timestamp == formatTimestamp(now)
        description == Description(testInfo.title)
        stepPart == IF stepDescription.given /\ stepDescription.text # << >>
                    THEN << "_" >> \o transliterate(stepDescription.text)
                    ELSE << >>
        fileName == FileName(testId, description, stepPart, viewport, type, timestamp)
    IN  [state |-> "returned", calledAt |-> now,
         category |-> category, browser |-> browser, testId |-> testId,
         viewport |-> viewport, timestamp |-> timestamp,
         description |-> description, stepPart |-> stepPart,
         fileName |-> fileName,
         path |-> PathJoin(<< category, browser, fileName >>)]

\* generateScreenshotName has not returned yet
Pending ==
    [state |-> "pending", calledAt |-> 0,
     category |-> << >>, browser |-> << >>, testId |-> << >>,
     viewport |-> << >>, timestamp |-> << >>, description |-> << >>,
     stepPart |-> << >>, fileName |-> << >>, path |-> << >>]

\* a string of n characters c
Repeat(c, n) == [i \in 1..n |-> c]

\* the lengths of the runs of one character in the explored titles: short
\* ones, and ones around the slice
RunLengths ==
    (0..MaxShortRun) \cup ((DescriptionSliceEnd - 1)..(DescriptionSliceEnd + MaxOver))

\* how an explored title starts: nothing, a test id with and without colon,
\* a category tag
TitlePrefixes == { << >>, << "A", "B", "-", "1", "2", ":", " " >>, << "A", "B", "-", "1", "2" >>, << "@", "S", "m", "o", "k", "e", " " >> }

\* the character an explored title repeats: a Cyrillic letter with a mapping
\* of three letters, a Latin letter, a space
RunCharacters == { "u0449", "a", " " }

\* how an explored title ends
TitleSuffixes == { << >>, << "!" >>, << "b" >> }

\* the titles of a test running alone
Titles ==
    { prefix \o Repeat(c, n) \o suffix :
        prefix \in TitlePrefixes, c \in RunCharacters,
        n \in RunLengths, suffix \in TitleSuffixes }

\* the titles of tests running at the same time: titles that differ in a
\* dropped character, in the case of a letter, in the test id, in a category
\* tag, and beyond the slice
ConcurrentTitles ==
    { << "a" >>, << "a", "!" >>, << "A", "B", "-", "1", "2", ":", " ", "a" >>, << "A", "B", "-", "1", "2", ":", " ", "A" >>, << "@", "s", "m", "o", "k", "e", " ", "a" >>,
      Repeat("a", DescriptionSliceEnd) \o << "b" >>,
      Repeat("a", DescriptionSliceEnd) \o << "c" >> }

\* testInfo.file
Files == { << "t", "e", "s", "t", "s", "/", "s", "m", "o", "k", "e", "/", "l", "o", "a", "d", ".", "s", "p", "e", "c", ".", "t", "s" >>, << "t", "e", "s", "t", "s", "/", "c", "a", "l", "e", "n", "d", "a", "r", ".", "s", "p", "e", "c", ".", "t", "s" >> }

NoViewport == [defined |-> FALSE, width |-> 0, height |-> 0]

\* testInfo.project: a desktop browser with a viewport, device projects
\* without, a project without a name
Projects ==
    { [name |-> << "c", "h", "r", "o", "m", "i", "u", "m" >>, viewport |-> [defined |-> TRUE, width |-> 1920, height |-> 1080]],
      [name |-> << "M", "o", "b", "i", "l", "e", " ", "C", "h", "r", "o", "m", "e" >>, viewport |-> NoViewport],
      [name |-> << "m", "o", "b", "i", "l", "e", "-", "s", "a", "f", "a", "r", "i" >>, viewport |-> NoViewport],
      [name |-> << >>, viewport |-> NoViewport] }

\* the type argument
ScreenshotTypes == { TypeFailure, TypeStep }

\* the stepDescription argument: absent, the empty string, a step label
StepDescriptions ==
    { [given |-> FALSE, text |-> << >>],
      [given |-> TRUE, text |-> << >>],
      [given |-> TRUE, text |-> << "u0428", "u0430", "u0433", " ", "1" >>] }

\* the clock reading at the start: 10:30:59.000
ClockStart == 37859000

\* the time between two clock readings, in milliseconds
TickMs == 500

\* one test is about to call generateScreenshotName
ScreenshotInit ==
    /\ testInfos \in [{"t1"} ->
            [testInfo : [title : Titles, file : Files, project : Projects],
             type : ScreenshotTypes,
             stepDescription : StepDescriptions]]
    /\ clock = ClockStart
    /\ screenshotNames = [t \in DOMAIN testInfos |-> Pending]
    /\ RetryIdle
    /\ CopyIdle
    /\ ClassifyIdle
    /\ TranslitIdle
    /\ NamerIdle
    /\ CompareIdle
    /\ ClickIdle
    /\ StepIdle

\* two tests that run at the same time are about to call
\* generateScreenshotName
ConcurrentInit ==
    /\ testInfos \in [Tests ->
            [testInfo : [title : ConcurrentTitles,
                         file : { << "t", "e", "s", "t", "s", "/", "c", "a", "l", "e", "n", "d", "a", "r", ".", "s", "p", "e", "c", ".", "t", "s" >> },
                         project : { p \in Projects : p.name \in { << "c", "h", "r", "o", "m", "i", "u", "m" >>, << "m", "o", "b", "i", "l", "e", "-", "s", "a", "f", "a", "r", "i" >> } }],
             type : ScreenshotTypes,
             stepDescription : { d \in StepDescriptions : d.given = (d.text # << >>) }]]
    /\ clock = ClockStart
    /\ screenshotNames = [t \in DOMAIN testInfos |-> Pending]
    /\ RetryIdle
    /\ CopyIdle
    /\ ClassifyIdle
    /\ TranslitIdle
    /\ NamerIdle
    /\ CompareIdle
    /\ ClickIdle
    /\ StepIdle

\* test t calls generateScreenshotName(testInfo, type, stepDescription)
GenerateScreenshotName(t) ==
    /\ screenshotNames[t].state = "pending"
    /\ screenshotNames' =
          [screenshotNames EXCEPT ![t] =
              ScreenshotName(testInfos[t].testInfo, testInfos[t].type,
                             testInfos[t].stepDescription, clock)]
    /\ UNCHANGED << testInfos, clock >>
    /\ UNCHANGED nonScreenshotVars

\* time passes
Tick ==
    /\ testInfos # << >>
    /\ clock < ClockStart + MaxTicks * TickMs
    /\ clock' = clock + TickMs
    /\ UNCHANGED << testInfos, screenshotNames >>
    /\ UNCHANGED nonScreenshotVars

ScreenshotNext ==
    \/ \E t \in DOMAIN testInfos : GenerateScreenshotName(t)
    \/ Tick

ScreenshotSpec == ScreenshotInit /\ [][ScreenshotNext]_vars

ConcurrentSpec == ConcurrentInit /\ [][ScreenshotNext]_vars

\* C18: for every test title, the slug generateScreenshotName derives from
\* the title (the description part of the file name) has at most 50
\* characters, also when Cyrillic letters transliterate to several Latin
\* letters.
C18_SlugAtMostFiftyCharacters ==
    \A t \in DOMAIN screenshotNames :
        (screenshotNames[t].state = "returned")
            => Len(screenshotNames[t].description) <= DescriptionSliceEnd

\* C20: two tests running at the same time whose titles differ, in the same
\* category, browser project and viewport, that call generateScreenshotName
\* with the same type and step label within the same second, never obtain
\* the same path.
C20_DifferentTitlesDifferentPaths ==
    \A t1, t2 \in DOMAIN screenshotNames :
        (/\ t1 # t2
         /\ screenshotNames[t1].state = "returned"
         /\ screenshotNames[t2].state = "returned"
         /\ testInfos[t1].testInfo.title # testInfos[t2].testInfo.title
         /\ screenshotNames[t1].category = screenshotNames[t2].category
         /\ testInfos[t1].testInfo.project = testInfos[t2].testInfo.project
         /\ screenshotNames[t1].viewport = screenshotNames[t2].viewport
         /\ testInfos[t1].type = testInfos[t2].type
         /\ testInfos[t1].stepDescription = testInfos[t2].stepDescription
         /\ screenshotNames[t1].calledAt \div 1000 = screenshotNames[t2].calledAt \div 1000)
            => screenshotNames[t1].path # screenshotNames[t2].path

\* C21: generateScreenshotName returns category/browser/fileName; fileName is
\* the test id, the slug, the step label if a step description was given,
\* the viewport, the screenshot type and the timestamp, joined by '_' in
\* that order, then '.png'; the browser segment is 'unknown' when the
\* project has no name.  (A step description is given when the argument is
\* a non-empty string.)
C21_PathIsCategoryBrowserFileName ==
    \A t \in DOMAIN screenshotNames :
        (screenshotNames[t].state = "returned")
            => LET name == screenshotNames[t]
                   call == testInfos[t]
                   stepGiven == call.stepDescription.given
                                   /\ call.stepDescription.text # << >>
                   stepField == IF stepGiven
                                THEN << "_" >> \o transliterate(call.stepDescription.text)
                                ELSE << >>
                   browserSegment == IF call.testInfo.project.name = << >>
                                     THEN << "u", "n", "k", "n", "o", "w", "n" >>
                                     ELSE call.testInfo.project.name
               IN  name.path =
                       name.category \o << "/" >> \o browserSegment \o << "/" >>
                          \o name.testId \o << "_" >> \o name.description
                          \o stepField
                          \o << "_" >> \o name.viewport
                          \o << "_" >> \o call.type
                          \o << "_" >> \o name.timestamp \o << ".", "p", "n", "g" >>

C21_Witness ==
    \E t \in DOMAIN screenshotNames :
        /\ screenshotNames[t].state = "returned"
        /\ testInfos[t].testInfo.project.name = << >>
        /\ testInfos[t].stepDescription.text # << >>
        /\ testInfos[t].testInfo.title = << "A", "B", "-", "1", "2", ":", " ", "a" >>
        /\ testInfos[t].type = TypeStep
        /\ testInfos[t].testInfo.file = << "t", "e", "s", "t", "s", "/", "c", "a", "l", "e", "n", "d", "a", "r", ".", "s", "p", "e", "c", ".", "t", "s" >>
        /\ screenshotNames[t].path =
              << "o", "t", "h", "e", "r", "/", "u", "n", "k", "n", "o", "w", "n", "/", "A", "B", "-", "1", "2", "_", "a", "_", "s", "h", "a", "g", "-", "1", "_", "d", "e", "s", "k", "t", "o", "p", "_" >> \o TypeStep \o << "_", "2", "0", "2", "4", "-", "0", "1", "-", "1", "5", "_", "1", "0", "-", "3", "0", "-", "5", "9", ".", "p", "n", "g" >>

\* ---------------------------------------------------------- detectCategory
\* largest number of directories between tests/ and the spec file
MaxDirs == 2

\* the directories explored: the known category directories, and one that
\* differs from a known one in case
Directories == { << "s", "m", "o", "k", "e", "/" >>, << "f", "u", "n", "c", "t", "i", "o", "n", "a", "l", "/" >>, << "v", "i", "s", "u", "a", "l", "/" >>, << "a", "c", "c", "e", "s", "s", "i", "b", "i", "l", "i", "t", "y", "/" >>, << "S", "m", "o", "k", "e", "/" >> }

\* testInfo.file: tests/, some directories, the spec file
CategoryFiles ==
    { << "t", "e", "s", "t", "s", "/" >> \o Join(dirs) \o << "l", "o", "a", "d", ".", "s", "p", "e", "c", ".", "t", "s" >> :
        dirs \in UNION { [1..n -> Directories] : n \in 0..MaxDirs } }

\* what a title may carry: the category tags (one in upper case), the short
\* accessibility tag, a category name without '@', nothing
Tags == { << "@", "s", "m", "o", "k", "e" >>, << "@", "F", "U", "N", "C", "T", "I", "O", "N", "A", "L" >>, << "@", "v", "i", "s", "u", "a", "l" >>, << "@", "a", "c", "c", "e", "s", "s", "i", "b", "i", "l", "i", "t", "y" >>, << "@", "a", "1", "1", "y" >>, << "s", "m", "o", "k", "e" >>, << >> }

\* testInfo.title: two tags and a text
CategoryTitles == { a \o << " " >> \o b \o << " ", "l", "o", "a", "d" >> : a \in Tags, b \in Tags }

\* one test, whose file and title decide the category, is about to call
\* generateScreenshotName
CategoryInit ==
    /\ testInfos \in [{"t1"} ->
            [testInfo : [title : CategoryTitles, file : CategoryFiles,
                         project : { p \in Projects : p.name = << "c", "h", "r", "o", "m", "i", "u", "m" >> }],
             type : { TypeFailure },
             stepDescription : { d \in StepDescriptions : ~d.given }]]
    /\ clock = ClockStart
    /\ screenshotNames = [t \in DOMAIN testInfos |-> Pending]
    /\ RetryIdle
    /\ CopyIdle
    /\ ClassifyIdle
    /\ TranslitIdle
    /\ NamerIdle
    /\ CompareIdle
    /\ ClickIdle
    /\ StepIdle

CategorySpec == CategoryInit /\ [][ScreenshotNext]_vars

\* the known categories, in the order detectCategory tries them
KnownCategories ==
    << CategorySmoke, CategoryFunctional, CategoryVisual, CategoryAccessibility >>

\* the file path contains the directory of known category number i
InDirectory(file, i) == Includes(file, << "/" >> \o KnownCategories[i] \o << "/" >>)

\* the title contains, in any case, a tag of known category number i
Tagged(title, i) ==
    \/ Includes(ToLowerCase(title), << "@" >> \o KnownCategories[i])
    \/ KnownCategories[i] = CategoryAccessibility /\ Includes(ToLowerCase(title), << "@", "a", "1", "1", "y" >>)

\* the first known category that satisfies P
FirstKnown(P(_)) ==
    KnownCategories[CHOOSE i \in 1..Len(KnownCategories) :
                        P(i) /\ \A j \in 1..(i - 1) : ~P(j)]

\* C22: the category of a test is one of smoke, functional, visual,
\* accessibility, other: the first known category whose directory the file
\* path contains, otherwise the first known category whose tag the title
\* contains, and 'other' exactly when neither the path nor the title matches.
C22_CategoryByPathThenTag ==
    \A t \in DOMAIN screenshotNames :
        (screenshotNames[t].state = "returned")
            => LET category == screenshotNames[t].category
                   file == testInfos[t].testInfo.file
                   title == testInfos[t].testInfo.title
                   InDir(i) == InDirectory(file, i)
                   HasTag(i) == Tagged(title, i)
                   pathMatches == \E i \in 1..Len(KnownCategories) : InDir(i)
                   titleMatches == \E i \in 1..Len(KnownCategories) : HasTag(i)
               IN  /\ category \in Range(KnownCategories) \cup { CategoryOther }
                   /\ pathMatches => category = FirstKnown(InDir)
                   /\ (~pathMatches /\ titleMatches) => category = FirstKnown(HasTag)
                   /\ (category = CategoryOther) <=> (~pathMatches /\ ~titleMatches)

\* a file in visual/smoke/ is smoke, whatever the tags say
C22_Witness ==
    \E t \in DOMAIN screenshotNames :
        /\ screenshotNames[t].state = "returned"
        /\ testInfos[t].testInfo.file = << "t", "e", "s", "t", "s", "/", "v", "i", "s", "u", "a", "l", "/", "s", "m", "o", "k", "e", "/", "l", "o", "a", "d", ".", "s", "p", "e", "c", ".", "t", "s" >>
        /\ testInfos[t].testInfo.title = << "@", "a", "1", "1", "y", " ", "@", "F", "U", "N", "C", "T", "I", "O", "N", "A", "L", " ", "l", "o", "a", "d" >>
        /\ screenshotNames[t].category = CategorySmoke

\* without a category directory the tags decide: functional before a11y
C22_WitnessTag ==
    \E t \in DOMAIN screenshotNames :
        /\ screenshotNames[t].state = "returned"
        /\ testInfos[t].testInfo.file = << "t", "e", "s", "t", "s", "/", "S", "m", "o", "k", "e", "/", "l", "o", "a", "d", ".", "s", "p", "e", "c", ".", "t", "s" >>
        /\ testInfos[t].testInfo.title = << "@", "a", "1", "1", "y", " ", "@", "F", "U", "N", "C", "T", "I", "O", "N", "A", "L", " ", "l", "o", "a", "d" >>
        /\ screenshotNames[t].category = CategoryFunctional

\* ================================================ the other artifact namers
\* the variables of the components other than the other namers
nonNamerVars == << retryVars, copyVars, classifyVars, translitVars, screenshotVars, compareVars, clickVars, stepVars >>

\* testInfo.title.match(/^([A-Z]+-\d+)/)?.[1] || 'TEST', as generateVideoName
\* and generateScreenshotPath compute it
TestIdOrTest(title) ==
    IF extractTestId(title) # << >> THEN extractTestId(title) ELSE << "T", "E", "S", "T" >>

\* the category of generateVideoName and generateScreenshotPath: the file
\* path alone
CategoryOfFile(file) ==
    IF Includes(file, << "/", "s", "m", "o", "k", "e", "/" >>) THEN << "s", "m", "o", "k", "e" >>
    ELSE IF Includes(file, << "/", "f", "u", "n", "c", "t", "i", "o", "n", "a", "l", "/" >>) THEN << "f", "u", "n", "c", "t", "i", "o", "n", "a", "l" >>
    ELSE IF Includes(file, << "/", "v", "i", "s", "u", "a", "l", "/" >>) THEN << "v", "i", "s", "u", "a", "l" >>
    ELSE IF Includes(file, << "/", "a", "c", "c", "e", "s", "s", "i", "b", "i", "l", "i", "t", "y", "/" >>) THEN << "a", "c", "c", "e", "s", "s", "i", "b", "i", "l", "i", "t", "y" >>
    ELSE << "o", "t", "h", "e", "r" >>

\* new Date().toISOString().replace(/[:.]/g, '-').slice(0, 19)
VideoTimestamp(now) == Slice(ReplaceColonsAndDots(ToISOString(now)), 19)

\* testInfo.project.name || 'unknown'
BrowserOf(testInfo) ==
    IF testInfo.project.name # << >> THEN testInfo.project.name ELSE << "u", "n", "k", "n", "o", "w", "n" >>

\* generateScreenshotMetadata(testInfo, type, step)
ScreenshotMetadata(testInfo, type, step, now) ==
    [state |-> "returned",
     testId |-> IF extractTestId(testInfo.title) # << >>
                THEN extractTestId(testInfo.title) ELSE << "U", "N", "K", "N", "O", "W", "N" >>,
     testName |-> testInfo.title,
     category |-> detectCategory(testInfo),
     browser |-> BrowserOf(testInfo),
     viewport |-> getViewportInfo(testInfo),
     type |-> type,
     step |-> step,
     timestamp |-> ToISOString(now)]

\* getScreenshotDirectory(testInfo)
ScreenshotDirectory(testInfo) ==
    LET category == detectCategory(testInfo)
        browser == BrowserOf(testInfo)
    IN  [state |-> "returned", category |-> category, browser |-> browser,
         path |-> PathJoin(<< << "r", "e", "p", "o", "r", "t", "s" >>, << "s", "c", "r", "e", "e", "n", "s", "h", "o", "t", "s" >>, category, browser >>)]

\* generateVideoName(testInfo)
VideoName(testInfo, now) ==
    LET category == CategoryOfFile(testInfo.file)
        browser == BrowserOf(testInfo)
        testId == TestIdOrTest(testInfo.title)
        timestamp == VideoTimestamp(now)
    IN  [state |-> "returned", category |-> category, browser |-> browser,
         testId |-> testId, timestamp |-> timestamp,
         path |-> PathJoin(<< category, browser,
                              testId \o << "_", "u0432", "u0438", "u0434", "u0435", "u043e", "_" >> \o timestamp \o << ".", "w", "e", "b", "m" >> >>)]

\* generateScreenshotPath(testInfo) of playwright.config.ts
ScreenshotPath(testInfo, now) ==
    LET category == CategoryOfFile(testInfo.file)
        browser == BrowserOf(testInfo)
        testId == TestIdOrTest(testInfo.title)
        timestamp == VideoTimestamp(now)
    IN  [state |-> "returned", category |-> category, browser |-> browser,
         testId |-> testId, timestamp |-> timestamp,
         path |-> PathJoin(<< << "r", "e", "p", "o", "r", "t", "s" >>, << "s", "c", "r", "e", "e", "n", "s", "h", "o", "t", "s" >>, category, browser,
                              testId \o << "_", "u043e", "u0448", "u0438", "u0431", "u043a", "u0430", "_" >> \o timestamp \o << ".", "p", "n", "g" >> >>)]

\* a namer has not been called
NotCalled == [state |-> "pending"]

\* the titles of the tests whose artifacts are named: with a test id, without,
\* with a category tag, with an id in lower case
NamerTitles == { << "A", "B", "-", "1", "2", ":", " ", "l", "o", "a", "d" >>, << "l", "o", "a", "d" >>, << "@", "s", "m", "o", "k", "e", " ", "l", "o", "a", "d" >>, << "a", "b", "-", "1", "2", ":", " ", "l", "o", "a", "d" >> }

\* one test is about to have its artifacts named
NamerInit ==
    /\ testInfos \in [{"t1"} ->
            [testInfo : [title : NamerTitles, file : Files, project : Projects],
             type : { TypeFailure },
             stepDescription : { d \in StepDescriptions : ~d.given }]]
    /\ clock = ClockStart
    /\ screenshotNames = [t \in DOMAIN testInfos |-> Pending]
    /\ artifacts = [t \in DOMAIN testInfos |->
                       [metadata |-> NotCalled, directory |-> NotCalled,
                        video |-> NotCalled, failurePath |-> NotCalled]]
    /\ RetryIdle
    /\ CopyIdle
    /\ ClassifyIdle
    /\ TranslitIdle
    /\ CompareIdle
    /\ ClickIdle
    /\ StepIdle

\* saveScreenshot calls generateScreenshotMetadata(testInfo, type, step)
GenerateScreenshotMetadata(t) ==
    /\ artifacts[t].metadata.state = "pending"
    /\ artifacts' = [artifacts EXCEPT ![t].metadata =
                        ScreenshotMetadata(testInfos[t].testInfo, testInfos[t].type,
                                           testInfos[t].stepDescription, clock)]
    /\ UNCHANGED nonNamerVars

\* saveScreenshot calls getScreenshotDirectory(testInfo)
GetScreenshotDirectory(t) ==
    /\ artifacts[t].directory.state = "pending"
    /\ artifacts' = [artifacts EXCEPT ![t].directory =
                        ScreenshotDirectory(testInfos[t].testInfo)]
    /\ UNCHANGED nonNamerVars

\* generateVideoName(testInfo) is called
GenerateVideoName(t) ==
    /\ artifacts[t].video.state = "pending"
    /\ artifacts' = [artifacts EXCEPT ![t].video =
                        VideoName(testInfos[t].testInfo, clock)]
    /\ UNCHANGED nonNamerVars

\* generateScreenshotPath(testInfo) is called
GenerateScreenshotPath(t) ==
    /\ artifacts[t].failurePath.state = "pending"
    /\ artifacts' = [artifacts EXCEPT ![t].failurePath =
                        ScreenshotPath(testInfos[t].testInfo, clock)]
    /\ UNCHANGED nonNamerVars

NamerNext ==
    \/ \E t \in DOMAIN testInfos : GenerateScreenshotName(t)
    \/ \E t \in DOMAIN testInfos : GenerateScreenshotMetadata(t)
    \/ \E t \in DOMAIN testInfos : GetScreenshotDirectory(t)
    \/ \E t \in DOMAIN testInfos : GenerateVideoName(t)
    \/ \E t \in DOMAIN testInfos : GenerateScreenshotPath(t)
    \/ Tick

NamerSpec == NamerInit /\ [][NamerNext]_vars

\* what the namers of test t have returned, the pending ones left out
Returned(t) ==
    LET all == << screenshotNames[t], artifacts[t].metadata, artifacts[t].directory,
                  artifacts[t].video, artifacts[t].failurePath >>
    IN  { i \in 1..Len(all) : all[i].state = "returned" }

\* the test ids the namers of test t have put into their artifacts
TestIdsUsed(t) ==
    LET all == << screenshotNames[t], artifacts[t].metadata,
                  artifacts[t].video, artifacts[t].failurePath >>
    IN  { all[i].testId : i \in { j \in 1..Len(all) : all[j].state = "returned" } }

\* the categories the namers of test t have chosen
CategoriesUsed(t) ==
    LET all == << screenshotNames[t], artifacts[t].metadata, artifacts[t].directory,
                  artifacts[t].video, artifacts[t].failurePath >>
    IN  { all[i].category : i \in Returned(t) }

\* C23: the test id of an artifact is the leading token [A-Z]+-\d+ of the
\* title when the title starts with one and a fixed placeholder otherwise,
\* the same placeholder in every namer: the screenshot name, the screenshot
\* metadata, the video name and the failure screenshot path of one test
\* carry the same test id.
C23_AllNamersUseTheSameTestId ==
    \A t \in DOMAIN artifacts :
        LET title == testInfos[t].testInfo.title
        IN  /\ (TestIdLength(title) > 0)
                  => TestIdsUsed(t) \subseteq { SubSeq(title, 1, TestIdLength(title)) }
            /\ Cardinality(TestIdsUsed(t)) <= 1

\* C30: all namers agree on the category directory of a test: screenshot
\* name, screenshot directory, screenshot metadata, video name and failure
\* screenshot path carry the same category, also for a test whose file is
\* outside the category directories and whose title carries a category tag.
C30_AllNamersAgreeOnCategory ==
    \A t \in DOMAIN artifacts : Cardinality(CategoriesUsed(t)) <= 1

\* the path of a screenshot name without its timestamp and extension
Stem(name) == SubSeq(name.path, 1, Len(name.path) - Len(name.timestamp) - Len(<< ".", "p", "n", "g" >>))

\* C24: generateScreenshotName is deterministic apart from the clock: two
\* calls with identical test metadata, type and step label made within the
\* same wall-clock second return identical paths, and between two calls with
\* identical arguments only the timestamp of the path can differ.
C24_DeterministicApartFromTheClock ==
    \A t1, t2 \in DOMAIN screenshotNames :
        (/\ t1 # t2
         /\ screenshotNames[t1].state = "returned"
         /\ screenshotNames[t2].state = "returned"
         /\ testInfos[t1] = testInfos[t2])
            => LET a == screenshotNames[t1]
                   b == screenshotNames[t2]
               IN  /\ (a.calledAt \div 1000 = b.calledAt \div 1000) => a.path = b.path
                   /\ Stem(a) = Stem(b)
                   /\ a.path = Stem(a) \o a.timestamp \o << ".", "p", "n", "g" >>
                   /\ b.path = Stem(b) \o b.timestamp \o << ".", "p", "n", "g" >>

\* two identical calls half a second apart, within one second
C24_Witness ==
    \E t1, t2 \in DOMAIN screenshotNames :
        /\ t1 # t2
        /\ screenshotNames[t1].state = "returned"
        /\ screenshotNames[t2].state = "returned"
        /\ testInfos[t1] = testInfos[t2]
        /\ screenshotNames[t1].calledAt = ClockStart
        /\ screenshotNames[t2].calledAt = ClockStart + TickMs
        /\ screenshotNames[t1].path = screenshotNames[t2].path

\* ------------------------------------------------- withRetry, sequencing
\* the invocations of the operation that have not settled yet
InFlight == invocations - Len(thrown) - (IF returned # 0 THEN 1 ELSE 0)

\* C25: within one withRetry call attempts never overlap: at most one
\* invocation of the operation is in flight; while invocation k+1 is in
\* flight the k earlier ones have all failed and each has been followed by a
\* wait that has elapsed; a new invocation starts only from the loop head,
\* never during a wait or another invocation; withRetry settles only when no
\* invocation is in flight.
C25_AttemptsNeverOverlap ==
    /\ InFlight \in {0, 1}
    /\ (InFlight = 1) <=> (pc = "operation")
    /\ (pc = "operation")
          => /\ Len(thrown) = invocations - 1
             /\ returned = 0
             /\ Len(waits) = invocations - 1
             /\ \A k \in 1..Len(waits) : waits[k].after = k
    /\ (pc = "wait") => (Len(waits) = invocations /\ Len(thrown) = invocations)
    /\ Settled => InFlight = 0

\* the third invocation is in flight: two failures and two elapsed waits
\* lie behind it
C25_Witness ==
    /\ pc = "operation"
    /\ invocations = 3
    /\ Len(thrown) = 2
    /\ Len(waits) = 2

\* ------------------------------------- withRetry, two runs over one behaviour
\* the variables of the components other than withRetry and the comparison
nonRetryCompareVars == << copyVars, classifyVars, translitVars, screenshotVars, namerVars, clickVars, stepVars >>

\* what the caller and the collaborators observe of a run: the invocations
\* of the operation, the waits, and how the run settled
Observation ==
    [outcome |-> pc, invocations |-> invocations, waits |-> waits,
     resolvedWith |-> resolvedWith, rejectedWith |-> rejectedWith]

\* what the operation did at each of its settled invocations: threw a value,
\* or resolved with one
Behaviour(thrownValues, returnedValue) ==
    [k \in 1..(Len(thrownValues) + (IF returnedValue # 0 THEN 1 ELSE 0)) |->
        IF k <= Len(thrownValues)
        THEN [throws |-> TRUE, error |-> thrownValues[k], value |-> 0]
        ELSE [throws |-> FALSE, error |-> Undefined, value |-> returnedValue]]

\* the operation behaves in the second run as it did in the first, as far as
\* the first run invoked it
Replays ==
    (firstRun # NoRun)
        => LET first == firstRun.behaviour
               second == Behaviour(thrown, returned)
           IN  \A k \in 1..Len(second) : k <= Len(first) => second[k] = first[k]

\* the error onRetry throws
CallbackError == [kind |-> "Error", ref |-> -1, message |-> 0]

\* a first run of the extended withRetry without onRetry has been called
CompareInit ==
    /\ maxAttempts \in 0..MaxAttemptsBound
    /\ delayMs \in 0..MaxDelayMs
    /\ exponentialBackoff \in BOOLEAN
    /\ shouldRetryGiven \in BOOLEAN
    /\ retryable \in SUBSET Messages
    /\ (~shouldRetryGiven => retryable = Messages)
    /\ onRetryGiven = FALSE
    /\ implementation = "extended"
    /\ pc = "loop"
    /\ attempt = 1
    /\ lastError = Undefined
    /\ invocations = 0
    /\ thrown = << >>
    /\ shouldRetryCalls = << >>
    /\ onRetryCalls = << >>
    /\ waits = << >>
    /\ returned = 0
    /\ resolvedWith = 0
    /\ rejectedWith = Undefined
    /\ firstRun = NoRun
    /\ CopyIdle
    /\ ClassifyIdle
    /\ TranslitIdle
    /\ ScreenshotIdle
    /\ NamerIdle
    /\ ClickIdle
    /\ StepIdle

\* the first run has settled: withRetry is called again, in the variation
\* given, with the same maxAttempts, delayMs, exponentialBackoff and
\* shouldRetry
RunAgain(variation) ==
    /\ Settled
    /\ firstRun = NoRun
    /\ firstRun' = [variation |-> variation, observation |-> Observation,
                    behaviour |-> Behaviour(thrown, returned)]
    /\ pc' = "loop"
    /\ attempt' = 1
    /\ lastError' = Undefined
    /\ invocations' = 0
    /\ thrown' = << >>
    /\ shouldRetryCalls' = << >>
    /\ onRetryCalls' = << >>
    /\ waits' = << >>
    /\ returned' = 0
    /\ resolvedWith' = 0
    /\ rejectedWith' = Undefined
    /\ UNCHANGED << maxAttempts, delayMs, exponentialBackoff, shouldRetryGiven, retryable >>
    /\ UNCHANGED nonRetryCompareVars

\* the second run is the basic withRetry of src/utils/helpers.ts, called with
\* maxAttempts and delayMs
RunBasic ==
    /\ ~exponentialBackoff
    /\ ~shouldRetryGiven
    /\ RunAgain("basic")
    /\ implementation' = "basic"
    /\ UNCHANGED onRetryGiven

\* the second run is the extended withRetry with an onRetry callback
RunWithOnRetry ==
    /\ RunAgain("onRetry")
    /\ onRetryGiven' = TRUE
    /\ UNCHANGED implementation

\* operation() threw, shouldRetry answered true, and onRetry(attempt,
\* lastError) throws: the exception leaves the catch block and the function
OnRetryThrows ==
    /\ pc = "operation"
    /\ implementation = "extended"
    /\ onRetryGiven
    /\ \E error \in Throwables :
        LET caught == AssignLastError(lastError, ToError(error, attempt))
            answer == shouldRetry(caught)
        IN  /\ ~Rethrows(answer)
            /\ thrown' = Append(thrown, error)
            /\ lastError' = caught
            /\ shouldRetryCalls' =
                   Append(shouldRetryCalls, [attempt |-> attempt, error |-> caught,
                                             answer |-> answer])
            /\ onRetryCalls' = Append(onRetryCalls, [attempt |-> attempt, error |-> caught])
            /\ pc' = "rejected"
            /\ rejectedWith' = CallbackError
    /\ UNCHANGED nonRetryVars
    /\ UNCHANGED << options, attempt, invocations, waits, returned, resolvedWith >>

CompareNext ==
    \/ Next /\ Replays'
    \/ OnRetryThrows /\ Replays'
    \/ RunBasic
    \/ RunWithOnRetry

CompareSpec == CompareInit /\ [][CompareNext]_vars

\* C27: called with maxAttempts and delayMs only, the extended and the basic
\* withRetry are observationally equivalent for every operation behaviour:
\* same number of invocations, same waits, same resolved value or rejected
\* error.
C27_ExtendedAndBasicEquivalent ==
    (firstRun.variation = "basic" /\ Settled)
        => Observation = firstRun.observation

\* both runs rejected after MaxAttemptsBound attempts with two waits
C27_Witness ==
    /\ firstRun.variation = "basic"
    /\ implementation = "basic"
    /\ pc = "rejected"
    /\ invocations = MaxAttemptsBound
    /\ Len(waits) = MaxAttemptsBound - 1
    /\ Observation = firstRun.observation

\* both runs resolved at the second attempt
C27_WitnessResolved ==
    /\ firstRun.variation = "basic"
    /\ pc = "resolved"
    /\ invocations = 2
    /\ firstRun.observation.outcome = "resolved"

\* C26: onRetry is a pure observer: for the same operation behaviour and
\* the same other options, the invocations of the operation, the waits and
\* the outcome (resolved value or rejected error) are the same with onRetry
\* as without, whatever onRetry does, also when it throws.
C26_OnRetryIsPureObserver ==
    (firstRun.variation = "onRetry" /\ Settled)
        => Observation = firstRun.observation

\* ============================================================== retryClick
\* delayMs: 500
ClickDelayMs == 500

\* shouldRetry of retryClick: the lower-cased message includes 'timeout',
\* 'not visible', 'intercept' or 'detached'
ClickShouldRetryAlways(message) == TRUE
ClickShouldRetry(message) ==
    LET lower == ToLowerCase(message)
    IN  \/ Includes(lower, << "t", "i", "m", "e", "o", "u", "t" >>)
        \/ Includes(lower, << "n", "o", "t", " ", "v", "i", "s", "i", "b", "l", "e" >>)
        \/ Includes(lower, << "i", "n", "t", "e", "r", "c", "e", "p", "t" >>)
        \/ Includes(lower, << "d", "e", "t", "a", "c", "h", "e", "d" >>)

\* messages of the errors waitFor and click reject with: one per keyword,
\* in mixed case, and some without a keyword
ClickErrorTexts ==
    { << "T", "i", "m", "e", "o", "u", "t", " ", "5", "0", "0", "0", "m", "s", " ", "e", "x", "c", "e", "e", "d", "e", "d" >>, << "e", "l", "e", "m", "e", "n", "t", " ", "i", "s", " ", "N", "O", "T", " ", "V", "I", "S", "I", "B", "L", "E" >>, << "<", "d", "i", "v", ">", " ", "i", "n", "t", "e", "r", "c", "e", "p", "t", "s", " ", "p", "o", "i", "n", "t", "e", "r", " ", "e", "v", "e", "n", "t", "s" >>,
      << "E", "l", "e", "m", "e", "n", "t", " ", "i", "s", " ", "D", "e", "t", "a", "c", "h", "e", "d" >>, << "s", "t", "r", "i", "c", "t", " ", "m", "o", "d", "e", " ", "v", "i", "o", "l", "a", "t", "i", "o", "n" >>, << "t", "i", "m", "e", " ", "o", "u", "t" >> }

\* retryClick has called withRetry with maxAttempts, delayMs: 500 and its
\* shouldRetry
ClickInit ==
    /\ messageTexts \in [Messages -> ClickErrorTexts]
    /\ maxAttempts \in 0..MaxAttemptsBound
    /\ delayMs = ClickDelayMs
    /\ exponentialBackoff = FALSE
    /\ shouldRetryGiven = TRUE
    /\ retryable = { m \in Messages : ClickShouldRetry(messageTexts[m]) }
    /\ onRetryGiven = FALSE
    /\ implementation = "extended"
    /\ pc = "loop"
    /\ attempt = 1
    /\ lastError = Undefined
    /\ invocations = 0
    /\ thrown = << >>
    /\ shouldRetryCalls = << >>
    /\ onRetryCalls = << >>
    /\ waits = << >>
    /\ returned = 0
    /\ resolvedWith = 0
    /\ rejectedWith = Undefined
    /\ CopyIdle
    /\ ClassifyIdle
    /\ TranslitIdle
    /\ ScreenshotIdle
    /\ NamerIdle
    /\ CompareIdle
    /\ StepIdle

\* element.waitFor and element.click reject with Error objects
ClickRejects ==
    /\ OperationRejects
    /\ thrown'[Len(thrown')].kind = "Error"

ClickNext ==
    \/ InvokeOperation
    \/ ThrowLastError
    \/ OperationResolves
    \/ ClickRejects
    \/ TimerFires

ClickSpec == ClickInit /\ [][ClickNext]_vars

\* the keywords after which a click is tried again
ClickRetryKeywords == { << "t", "i", "m", "e", "o", "u", "t" >>, << "n", "o", "t", " ", "v", "i", "s", "i", "b", "l", "e" >>, << "i", "n", "t", "e", "r", "c", "e", "p", "t" >>, << "d", "e", "t", "a", "c", "h", "e", "d" >> }

\* the message of error e contains one of the keywords, letter case ignored
Transient(e) ==
    \E k \in ClickRetryKeywords : OccursIgnoringCase(messageTexts[e.message], k)

\* C28: retryClick tries a failed click again only when the error message
\* contains, in any letter case, 'timeout', 'not visible', 'intercept' or
\* 'detached'; after any other error it makes no further attempt and rejects
\* with that error (exactly one attempt when it is the first); it makes at
\* most maxAttempts attempts, with a wait of 500 ms between two attempts.
C28_ClickRetriesTransientErrorsOnly ==
    /\ \A k \in 1..Len(thrown) : (k < invocations) => Transient(thrown[k])
    /\ \A k \in 1..Len(thrown) :
          ~Transient(thrown[k])
              => /\ pc = "rejected"
                 /\ rejectedWith = thrown[k]
                 /\ invocations = k
    /\ (Len(thrown) >= 1 /\ ~Transient(thrown[1])) => invocations = 1
    /\ invocations <= maxAttempts
    /\ \A w \in 1..Len(waits) : waits[w].ms = 500 /\ waits[w].after = w
    /\ (pc = "operation") => Len(waits) = invocations - 1

\* an error without keyword at the first of three allowed attempts
C28_Witness ==
    /\ maxAttempts = 3
    /\ pc = "rejected"
    /\ invocations = 1
    /\ messageTexts[thrown[1].message] = << "s", "t", "r", "i", "c", "t", " ", "m", "o", "d", "e", " ", "v", "i", "o", "l", "a", "t", "i", "o", "n" >>
    /\ rejectedWith = thrown[1]
    /\ waits = << >>

\* three attempts, the first two failing with keyword errors, 500 ms apart
C28_WitnessRetried ==
    /\ maxAttempts = 3
    /\ invocations = 3
    /\ Len(waits) = 2
    /\ messageTexts[thrown[1].message] = << "e", "l", "e", "m", "e", "n", "t", " ", "i", "s", " ", "N", "O", "T", " ", "V", "I", "S", "I", "B", "L", "E" >>
    /\ messageTexts[thrown[2].message] = << "E", "l", "e", "m", "e", "n", "t", " ", "i", "s", " ", "D", "e", "t", "a", "c", "h", "e", "d" >>

\* ============================================================= logTestStep
\* largest number of steps of the test
MaxSteps == 2

\* the variables of the components other than logTestStep
nonStepVars == << retryVars, copyVars, classifyVars, translitVars, screenshotVars, namerVars, compareVars, clickVars >>

\* the descriptions of the annotations of a step
StartDescription(stepName) == << "u041d", "u0430", "u0447", "u0430", "u043b", "u043e", ":", " " >> \o stepName
SuccessDescription(stepName) == << "u0423", "u0441", "u043f", "u0435", "u0448", "u043d", "u043e", ":", " " >> \o stepName
FailureDescription(stepName) == << "u041e", "u0448", "u0438", "u0431", "u043a", "u0430", " ", "u0432", " ", "u0448", "u0430", "u0433", "u0435", ":", " " >> \o stepName

\* addTestAnnotation(testInfo, type, description); call is the logTestStep
\* call that made it
AddTestAnnotation(list, type, description, call) ==
    Append(list, [type |-> type, description |-> description, call |-> call])

\* the stepDescription saveFailureScreenshot passes to saveScreenshot
FailureStepDescription == << "u043f", "u0440", "u0438", "-", "u043e", "u0448", "u0438", "u0431", "u043a", "u0435" >>

\* the stepName arguments
StepNameSet == { << "o", "p", "e", "n" >>, << "u0432", "u044b", "u0431", "u0440", "u0430", "u0442", "u044c", " ", "u0434", "u0430", "u0442", "u0443" >> }

\* what action(), page.screenshot and testInfo.attach can reject with
ActionErrors == { "action failed" }
ScreenshotErrors == { "screenshot failed" }
AttachErrors == { "attach failed" }

\* a test with at most MaxSteps steps is about to call logTestStep for its
\* first step
StepInit ==
    /\ \E n \in 1..MaxSteps :
          /\ stepNames \in [1..n -> StepNameSet]
          /\ stepScreenshots \in [1..n -> BOOLEAN]
    /\ stepPc = "called"
    /\ stepCall = 1
    /\ annotations = << >>
    /\ attachments = << >>
    /\ actionOutcomes = << >>
    /\ stepError = NoError
    /\ stepResults = << >>
    /\ RetryIdle
    /\ CopyIdle
    /\ ClassifyIdle
    /\ TranslitIdle
    /\ ScreenshotIdle
    /\ NamerIdle
    /\ CompareIdle
    /\ ClickIdle

\* addTestAnnotation(testInfo, 'step', start description); try { await action()
StartStep ==
    /\ stepPc = "called"
    /\ annotations' = AddTestAnnotation(annotations, "step",
                                        StartDescription(stepNames[stepCall]), stepCall)
    /\ stepPc' = "action"
    /\ UNCHANGED << stepNames, stepScreenshots, stepCall, attachments, actionOutcomes,
                    stepError, stepResults >>
    /\ UNCHANGED nonStepVars

\* the catch block up to its await: the error annotation, then
\* saveFailureScreenshot -> saveScreenshot up to page.screenshot
CatchBlock(error) ==
    /\ annotations' = AddTestAnnotation(annotations, "error",
                                        FailureDescription(stepNames[stepCall]), stepCall)
    /\ stepError' = error
    /\ stepPc' = "failureScreenshot"

\* action() resolved: the success annotation; with options.screenshot,
\* saveStepScreenshot -> saveScreenshot up to page.screenshot
ActionResolves ==
    /\ stepPc = "action"
    /\ actionOutcomes' = Append(actionOutcomes, "resolved")
    /\ annotations' = AddTestAnnotation(annotations, "step",
                                        SuccessDescription(stepNames[stepCall]), stepCall)
    /\ IF stepScreenshots[stepCall]
       THEN /\ stepPc' = "stepScreenshot"
            /\ UNCHANGED stepResults
       ELSE /\ stepPc' = "settled"
            /\ stepResults' = Append(stepResults, [state |-> "resolved", error |-> NoError])
    /\ UNCHANGED << stepNames, stepScreenshots, stepCall, attachments, stepError >>
    /\ UNCHANGED nonStepVars

\* action() rejected: catch
ActionRejects ==
    /\ stepPc = "action"
    /\ \E error \in ActionErrors :
          /\ actionOutcomes' = Append(actionOutcomes, "rejected")
          /\ CatchBlock(error)
    /\ UNCHANGED << stepNames, stepScreenshots, stepCall, attachments, stepResults >>
    /\ UNCHANGED nonStepVars

\* saveStepScreenshot: page.screenshot resolved, testInfo.attach is awaited
StepScreenshotTaken ==
    /\ stepPc = "stepScreenshot"
    /\ stepPc' = "stepAttach"
    /\ UNCHANGED << stepNames, stepScreenshots, stepCall, annotations, attachments,
                    actionOutcomes, stepError, stepResults >>
    /\ UNCHANGED nonStepVars

\* saveStepScreenshot: testInfo.attach resolved; logTestStep returns
StepScreenshotAttached ==
    /\ stepPc = "stepAttach"
    /\ attachments' = Append(attachments, [type |-> TypeStep,
                                           step |-> stepNames[stepCall], call |-> stepCall])
    /\ stepPc' = "settled"
    /\ stepResults' = Append(stepResults, [state |-> "resolved", error |-> NoError])
    /\ UNCHANGED << stepNames, stepScreenshots, stepCall, annotations, actionOutcomes,
                    stepError >>
    /\ UNCHANGED nonStepVars

\* saveStepScreenshot rejected (page.screenshot or testInfo.attach): it was
\* awaited inside the try block, so the catch block runs
StepScreenshotRejects ==
    /\ stepPc \in { "stepScreenshot", "stepAttach" }
    /\ \E error \in (IF stepPc = "stepScreenshot" THEN ScreenshotErrors ELSE AttachErrors) :
          CatchBlock(error)
    /\ UNCHANGED << stepNames, stepScreenshots, stepCall, attachments, actionOutcomes,
                    stepResults >>
    /\ UNCHANGED nonStepVars

\* saveFailureScreenshot: page.screenshot resolved, testInfo.attach is awaited
FailureScreenshotTaken ==
    /\ stepPc = "failureScreenshot"
    /\ stepPc' = "failureAttach"
    /\ UNCHANGED << stepNames, stepScreenshots, stepCall, annotations, attachments,
                    actionOutcomes, stepError, stepResults >>
    /\ UNCHANGED nonStepVars

\* saveFailureScreenshot: the screenshot is attached; the error description
\* (String(error), not empty) is attached next
FailureScreenshotAttached ==
    /\ stepPc = "failureAttach"
    /\ attachments' = Append(attachments, [type |-> TypeFailure,
                                           step |-> FailureStepDescription, call |-> stepCall])
    /\ stepPc' = "failureDescription"
    /\ UNCHANGED << stepNames, stepScreenshots, stepCall, annotations, actionOutcomes,
                    stepError, stepResults >>
    /\ UNCHANGED nonStepVars

\* saveFailureScreenshot resolved: throw error
FailureDescriptionAttached ==
    /\ stepPc = "failureDescription"
    /\ attachments' = Append(attachments, [type |-> << "u041e", "u043f", "u0438", "u0441", "u0430", "u043d", "u0438", "u0435", " ", "u043e", "u0448", "u0438", "u0431", "u043a", "u0438" >>,
                                           step |-> << >>, call |-> stepCall])
    /\ stepPc' = "settled"
    /\ stepResults' = Append(stepResults, [state |-> "rejected", error |-> stepError])
    /\ UNCHANGED << stepNames, stepScreenshots, stepCall, annotations, actionOutcomes,
                    stepError >>
    /\ UNCHANGED nonStepVars

\* saveFailureScreenshot rejected: its error leaves the catch block
FailureScreenshotRejects ==
    /\ stepPc \in { "failureScreenshot", "failureAttach", "failureDescription" }
    /\ \E error \in (IF stepPc = "failureScreenshot" THEN ScreenshotErrors ELSE AttachErrors) :
          stepResults' = Append(stepResults, [state |-> "rejected", error |-> error])
    /\ stepPc' = "settled"
    /\ UNCHANGED << stepNames, stepScreenshots, stepCall, annotations, attachments,
                    actionOutcomes, stepError >>
    /\ UNCHANGED nonStepVars

\* the step passed: the test calls logTestStep for its next step
NextStep ==
    /\ stepPc = "settled"
    /\ stepResults[stepCall].state = "resolved"
    /\ stepCall < Len(stepNames)
    /\ stepCall' = stepCall + 1
    /\ stepPc' = "called"
    /\ stepError' = NoError
    /\ UNCHANGED << stepNames, stepScreenshots, annotations, attachments, actionOutcomes,
                    stepResults >>
    /\ UNCHANGED nonStepVars

StepNext ==
    \/ StartStep
    \/ ActionResolves
    \/ ActionRejects
    \/ StepScreenshotTaken
    \/ StepScreenshotAttached
    \/ StepScreenshotRejects
    \/ FailureScreenshotTaken
    \/ FailureScreenshotAttached
    \/ FailureDescriptionAttached
    \/ FailureScreenshotRejects
    \/ NextStep

StepSpec == StepInit /\ [][StepNext]_vars

\* the annotations of call c, in order
AnnotationsOf(c) == SelectSeq(annotations, LAMBDA a : a.call = c)

\* the number of annotations of call c whose description starts with prefix
CountOf(c, prefix) ==
    Len(SelectSeq(AnnotationsOf(c),
                  LAMBDA a : /\ Len(a.description) >= Len(prefix)
                             /\ SubSeq(a.description, 1, Len(prefix)) = prefix))

\* C29: each logTestStep call appends the start annotation before the
\* action runs, and afterwards exactly one outcome annotation that matches
\* what the action did: the success one if the action succeeded, the error
\* one if it failed, never both for one step, also when taking the step
\* screenshot or the failure screenshot fails.
C29_OneOutcomeAnnotationPerStep ==
    \A c \in 1..stepCall :
        /\ (c < stepCall \/ stepPc # "called")
              => /\ AnnotationsOf(c) # << >>
                 /\ AnnotationsOf(c)[1].description = << "u041d", "u0430", "u0447", "u0430", "u043b", "u043e", ":", " " >> \o stepNames[c]
                 /\ CountOf(c, << "u041d", "u0430", "u0447", "u0430", "u043b", "u043e", ":", " " >>) = 1
        /\ (c > Len(actionOutcomes))
              => CountOf(c, << "u0423", "u0441", "u043f", "u0435", "u0448", "u043d", "u043e", ":", " " >>) + CountOf(c, << "u041e", "u0448", "u0438", "u0431", "u043a", "u0430", " ", "u0432", " ", "u0448", "u0430", "u0433", "u0435", ":", " " >>) = 0
        /\ (c <= Len(actionOutcomes) /\ actionOutcomes[c] = "resolved")
              => CountOf(c, << "u0423", "u0441", "u043f", "u0435", "u0448", "u043d", "u043e", ":", " " >>) = 1 /\ CountOf(c, << "u041e", "u0448", "u0438", "u0431", "u043a", "u0430", " ", "u0432", " ", "u0448", "u0430", "u0433", "u0435", ":", " " >>) = 0
        /\ (c <= Len(actionOutcomes) /\ actionOutcomes[c] = "rejected")
              => CountOf(c, << "u0423", "u0441", "u043f", "u0435", "u0448", "u043d", "u043e", ":", " " >>) = 0 /\ CountOf(c, << "u041e", "u0448", "u0438", "u0431", "u043a", "u0430", " ", "u0432", " ", "u0448", "u0430", "u0433", "u0435", ":", " " >>) = 1

====
